---- MODULE Spec2Model ----
(***************************************************************************)
(* Translation operators of sumpy's expansions:                            *)
(*   - M2M, VolumeTaylorMultipoleExpansionBase.translate_from              *)
(*     (sumpy/expansion/multipole.py), over exact rational scalars;        *)
(*   - M2L, the strategies of sumpy/expansion/m2l.py, over a prime field   *)
(*     that has the roots of unity the length-n transform needs.           *)
(* Multi-indices are tuples of naturals; axes are numbered from 0 as in    *)
(* the source, positions of sequences from 1.                              *)
(***************************************************************************)
EXTENDS Integers, Sequences, FiniteSets, TLC

\* ------------------------------------------------------------------ bounds

\* Highest expansion order of a source or target expansion.
MaxOrder == 2
\* Largest rscale.
MaxRscale == 2
\* The scalars of M2L are the integers modulo a prime above this number.
ModulusFloor == 100
\* Largest order of a Fourier-Bessel expansion.
MaxBesselOrder == 3

Orders == 0..MaxOrder
BesselOrders == 0..MaxBesselOrder
\* The spatial dimensions of the Cartesian expansions.
Dims == {1, 2}
\* The values of a component of dvec.
DistValues == {0 - 1, 0, 2}

\* ------------------------------------------------------- sequence helpers

RECURSIVE FlattenSeq(_)
FlattenSeq(ss) ==
    IF ss = <<>> THEN <<>> ELSE Head(ss) \o FlattenSeq(Tail(ss))

RECURSIVE SumSeq(_)
SumSeq(s) ==
    IF s = <<>> THEN 0 ELSE Head(s) + SumSeq(Tail(s))

Range(s) == {s[i] : i \in DOMAIN s}

IndexOf(s, x) == CHOOSE i \in DOMAIN s : s[i] = x

\* A Python list built by a comprehension or a loop: every entry is
\* evaluated once, when the list is built.
List(f) == <<>> \o f

Reversed(s) == [i \in 1..Len(s) |-> s[Len(s) + 1 - i]]

Abs(x) == IF x < 0 THEN -x ELSE x

RECURSIVE factorial(_)
factorial(n) == IF n <= 0 THEN 1 ELSE n * factorial(n - 1)

RECURSIVE mi_factorial(_)
mi_factorial(mi) ==
    IF mi = <<>> THEN 1 ELSE factorial(Head(mi)) * mi_factorial(Tail(mi))

binomial(n, k) == factorial(n) \div (factorial(k) * factorial(n - k))

add_mi(mi1, mi2) == [i \in DOMAIN mi1 |-> mi1[i] + mi2[i]]

mi_set_axis(mi, axis, value) == [mi EXCEPT ![axis + 1] = value]

\* ------------------------------------------------ exact rational scalars
\* A scalar of M2M is a fraction <<numerator, denominator>> in lowest terms
\* with a positive denominator, the exact value sympy computes with.

RECURSIVE GCD(_, _)
GCD(a, b) == IF b = 0 THEN a ELSE GCD(b, a % b)

Rat(n, d) ==
    LET s == IF d < 0 THEN -1 ELSE 1
        g == GCD(Abs(n), Abs(d))
    IN  <<(s * n) \div g, (s * d) \div g>>

RInt(n) == <<n, 1>>
RZero == <<0, 1>>
RAdd(x, y) == Rat(x[1] * y[2] + y[1] * x[2], x[2] * y[2])
RMul(x, y) == Rat(x[1] * y[1], x[2] * y[2])
RDiv(x, y) == Rat(x[1] * y[2], x[2] * y[1])

RECURSIVE RPow(_, _)
RPow(x, e) == IF e = 0 THEN RInt(1) ELSE RMul(x, RPow(x, e - 1))

RECURSIVE RSumSeq(_)
RSumSeq(s) ==
    IF s = <<>> THEN RZero ELSE RAdd(Head(s), RSumSeq(Tail(s)))

\* -------------------------------------------- coefficient identifiers

\* pytools.generate_nonnegative_integer_tuples_summing_to_at_most: the
\* first entry varies fastest, the last slowest.
RECURSIVE gnitstam(_, _)
gnitstam(n, length) ==
    IF length = 0 THEN << <<>> >>
    ELSE FlattenSeq([i \in 1..(n + 1) |->
            LET bases == gnitstam(n - (i - 1), length - 1)
            IN  [b \in 1..Len(bases) |-> Append(bases[b], i - 1)]])

\* pytools.generate_nonnegative_integer_tuples_below for a sequence of
\* upper bounds: the first entry varies slowest, the last fastest.
RECURSIVE gnitb(_)
gnitb(n) ==
    IF n = <<>> THEN << <<>> >>
    ELSE LET bases == gnitb(Tail(n))
         IN  FlattenSeq([i \in 1..Head(n) |->
                [b \in 1..Len(bases) |-> <<i - 1>> \o bases[b]]])

\* sorted(..., key=sum): a stable sort by degree.
SortedBySum(mis, order) ==
    FlattenSeq([s \in 1..(order + 1) |->
        SelectSeq(mis, LAMBDA mi : SumSeq(mi) = s - 1)])

\* ExpansionTermsWrangler.get_full_coefficient_identifiers, memoized per
\* (dim, order) as in the source.
FullIdsTable ==
    [d \in Dims, p \in 0..(2 * MaxOrder) |-> SortedBySum(gnitstam(p, d), p)]

get_full_coefficient_identifiers(exp) == FullIdsTable[exp.dim, exp.order]

\* The stored identifiers of an expansion.  "full" is the plain Taylor
\* expansion, which stores every full identifier.  "pde" is the compressed
\* expansion of the example in translate_from (u_xy + u_x + u_y = 0), which
\* stores the multi-indices (0, m, ...) and (n, 0, ...).
IsStored(family, mi) ==
    \/ family = "full"
    \/ family = "pde" /\ (mi[1] = 0 \/ mi[2] = 0)

FamilyNames == {"full", "pde"}
Families(dim) == IF dim >= 2 THEN FamilyNames ELSE {"full"}

StoredIdsTable ==
    [d \in Dims, p \in Orders, f \in FamilyNames |->
        IF f \in Families(d)
        THEN SelectSeq(FullIdsTable[d, p], LAMBDA mi : IsStored(f, mi))
        ELSE <<>>]

\* The Fourier-Bessel expansions of two dimensions ("bessel") store the
\* integers -order..order.
get_coefficient_identifiers(exp) ==
    IF exp.family = "bessel"
    THEN [i \in 1..(2 * exp.order + 1) |-> i - 1 - exp.order]
    ELSE StoredIdsTable[exp.dim, exp.order, exp.family]

\* The position (from 0) of the integer k in a Fourier-Bessel expansion.
get_storage_index(exp, k) == exp.order + k

\* An expansion object, as far as the translations read it.
Expansion(dim, order, family, use_rscale) ==
    [dim |-> dim, order |-> order, family |-> family,
     use_rscale |-> use_rscale]

\* ExpansionTermsWrangler._get_mi_hyperpplanes: pairs <<axis d, const>>,
\* the hyperplane holding the multi-indices with mi[d] = const.
get_mi_hyperplanes(exp) ==
    IF exp.family = "full"
    THEN [c \in 1..(exp.order + 1) |-> <<exp.dim - 1, c - 1>>]
    ELSE << <<0, 0>>, <<1, 0>> >>

\* ExpansionTermsWrangler._split_coeffs_into_hyperplanes: pairs
\* <<axis d, multi-indices>>; a multi-index of two hyperplanes is kept in the
\* first one only.
RECURSIVE SplitFrom(_, _, _)
SplitFrom(ids, planes, seen) ==
    IF planes = <<>> THEN <<>>
    ELSE LET d == Head(planes)[1]
             const == Head(planes)[2]
             mis == SelectSeq(ids,
                        LAMBDA mi : mi[d + 1] = const /\ mi \notin seen)
         IN  << <<d, mis>> >> \o SplitFrom(ids, Tail(planes), seen \cup Range(mis))

\* Memoized per expansion, as in the source.
HyperplanesTable ==
    [d \in Dims, p \in Orders, f \in FamilyNames |->
        IF f \in Families(d)
        THEN SplitFrom(StoredIdsTable[d, p, f],
                get_mi_hyperplanes([dim |-> d, order |-> p, family |-> f]), {})
        ELSE <<>>]

split_coeffs_into_hyperplanes(exp) ==
    HyperplanesTable[exp.dim, exp.order, exp.family]

\* ------------------------------------------ scalars of M2L: prime fields
\* M2L is generic in its scalars (sympy expressions, numbers).  The model
\* computes in the integers modulo a prime q, a field in which the
\* transform of length n exists exactly: q = 1 (mod n), so that there is an
\* element of multiplicative order n.

FMul(q, a, b) == (a * b) % q

RECURSIVE FPow(_, _, _)
FPow(q, a, e) ==
    IF e = 0 THEN 1 % q
    ELSE LET h == FPow(q, a, e \div 2)
             h2 == (h * h) % q
         IN  IF e % 2 = 0 THEN h2 ELSE (h2 * (a % q)) % q

FInv(q, a) == FPow(q, a, q - 2)
FDiv(q, a, b) == FMul(q, a, FInv(q, b))
FNeg(q, a) == (q - (a % q)) % q
IsPrime(q) == q >= 2 /\ \A f \in 2..(q - 1) : f * f > q \/ q % f # 0

RECURSIVE PrimeFrom(_, _)
PrimeFrom(q, n) ==
    IF IsPrime(q) /\ q % n = 1 % n THEN q ELSE PrimeFrom(q + 1, n)

\* The sizes of the circulant index spaces of the Cartesian expansion pairs,
\* and the lengths of the vectors FourierBesselM2LWithFFT transforms.
CircSizes ==
    {1} \cup {b : b \in 1..(2 * MaxOrder + 1)}
        \cup {b * b : b \in 1..(2 * MaxOrder + 1)}
        \cup {2 * b + 1 : b \in 0..(2 * MaxBesselOrder)}

\* The prime of the scalars for a transform of length n, an element of
\* multiplicative order n in it, and the powers of that element.
ModulusTable == [n \in CircSizes |-> PrimeFrom(ModulusFloor + 1, n)]

RootTable ==
    [n \in CircSizes |->
        LET q == ModulusTable[n]
        IN  CHOOSE w \in 1..(q - 1) :
                /\ FPow(q, w, n) = 1
                /\ \A e \in 1..(n - 1) : n % e # 0 \/ FPow(q, w, e) # 1]

RECURSIVE PowersFrom(_, _, _, _)
PowersFrom(q, w, cur, count) ==
    IF count = 0 THEN <<>>
    ELSE <<cur>> \o PowersFrom(q, w, (cur * w) % q, count - 1)

RootPowersTable ==
    [n \in CircSizes |-> PowersFrom(ModulusTable[n], RootTable[n], 1, n)]

\* ------------------------------------------------------------- state

VARIABLES
    \* M2M: the arguments of translate_from (self is tgt_expansion) ...
    tgt_expansion, src_expansion, src_coeff_exprs, src_rscale, dvec,
    tgt_rscale, fast_version,
    \* ... its position, its locals and what it returned ...
    pc, axis, result, written, returned,
    \* ... and the round trip: which leg runs, the coefficients it began with.
    leg, first_coeffs,
    \* M2L: the translation object and the kernel of the expansions ...
    m2l_translation, kernel,
    \* ... and the vectors handed from one stage of the translation to the
    \* next.
    derivatives, preprocessed_exprs, m2l_result, local_exprs,
    \* ... and the translation_classes_dependent_data argument of translate
    \* (<<>> for None).
    precomputed_data,
    \* The memoization cache and the callers that look a key up in it.
    cache, callers

m2m_vars == <<tgt_expansion, src_expansion, src_coeff_exprs, src_rscale, dvec,
              tgt_rscale, fast_version, pc, axis, result, written, returned,
              leg, first_coeffs>>

m2m_only == <<fast_version, axis, result, written, leg, first_coeffs>>

m2l_only == <<m2l_translation, kernel, derivatives, preprocessed_exprs,
              m2l_result, local_exprs, precomputed_data>>

cache_vars == <<cache, callers>>

vars == <<m2m_vars, m2l_only, cache_vars>>

\* ------------------------------------------------ the memoization cache

\* The keys of the cache: <<what is cached, family, dimension, orders>>.
CacheKeys ==
    {<<"identifiers", "full", 2, <<MaxOrder>>>>,
     <<"hyperplanes", "pde", 2, <<MaxOrder>>>>,
     <<"circulant", "full", 1, <<MaxOrder, MaxOrder - 1>>>>,
     <<"circulant", "full", 2, <<MaxOrder - 1, MaxOrder>>>>}

\* The callers that use the cache at the same time.
Callers == {1, 2}

NoEntry == [hit |-> FALSE, value |-> <<>>]

EmptyCache == [k \in CacheKeys |-> NoEntry]

IdleCaller == [pc |-> "idle", key |-> <<>>, value |-> <<>>]

IdleCallers == [p \in Callers |-> IdleCaller]

\* ------------------------------------------------- M2M: translate_from

\* if not self.use_rscale: src_rscale = 1; tgt_rscale = 1
m2m_rscale(exp, rscale) == IF exp.use_rscale THEN rscale ELSE 1

\* Mutant: the hyperplanes of every axis are taken ("if d != axis: continue"
\* left out).
InputWrites_AnyAxis(tgt, src, ax) ==
    LET planes == split_coeffs_into_hyperplanes(tgt)
        src_mis == Range(get_coefficient_identifiers(src))
    IN  FlattenSeq([h \in 1..Len(planes) |->
            SelectSeq(planes[h][2], LAMBDA mi : mi \in src_mis)])

\* Mutant: the loop over the hyperplanes stops after the first one of the
\* axis.
InputWrites_FirstPlane(tgt, src, ax) ==
    LET planes == SelectSeq(split_coeffs_into_hyperplanes(tgt),
                            LAMBDA pl : pl[1] = ax)
        src_mis == Range(get_coefficient_identifiers(src))
    IN  IF planes = <<>> THEN <<>>
        ELSE SelectSeq(planes[1][2], LAMBDA mi : mi \in src_mis)

\* The multi-indices whose source coefficient the index gymnastics of one
\* axis writes into cur_dim_input_coeffs, one entry per write, in loop order.
InputWrites(tgt, src, ax) ==
    LET planes == split_coeffs_into_hyperplanes(tgt)
        src_mis == Range(get_coefficient_identifiers(src))
    IN  FlattenSeq([h \in 1..Len(planes) |->
            IF planes[h][1] # ax THEN <<>>
            ELSE SelectSeq(planes[h][2], LAMBDA mi : mi \in src_mis)])

\* Mutant: the factor (src_rscale/tgt_rscale)**sum(mi) is left out.
cur_dim_input_coeffs_NoRscale(tgt, src, coeffs, srs, trs, ax) ==
    LET full == get_full_coefficient_identifiers(tgt)
        src_ids == get_coefficient_identifiers(src)
        writes == Range(InputWrites(tgt, src, ax))
    IN  List([i \in 1..Len(full) |->
            IF full[i] \in writes
            THEN coeffs[IndexOf(src_ids, full[i])]
            ELSE RZero])

\* cur_dim_input_coeffs after the index gymnastics of one axis.
cur_dim_input_coeffs(tgt, src, coeffs, srs, trs, ax) ==
    LET full == get_full_coefficient_identifiers(tgt)
        src_ids == get_coefficient_identifiers(src)
        writes == Range(InputWrites(tgt, src, ax))
    IN  List([i \in 1..Len(full) |->
            IF full[i] \in writes
            THEN RMul(coeffs[IndexOf(src_ids, full[i])],
                      RPow(Rat(srs, trs), SumSeq(full[i])))
            ELSE RZero])

\* dims = list(range(axis)) + list(range(axis+1, self.dim)) + [axis]
sweep_dims(ax, dim) ==
    [i \in 1..dim |-> IF i <= ax THEN i - 1 ELSE IF i < dim THEN i ELSE ax]

\* for n, k, dist in zip(tgt_mi, input_mi, dvec): assert n >= k
zip_len(tgt_mi, input_mi, dv) ==
    IF Len(dv) < Len(tgt_mi) THEN Len(dv) ELSE Len(tgt_mi)

SweepAssertion(tgt_mi, input_mi, dv) ==
    \A j \in 1..zip_len(tgt_mi, input_mi, dv) : tgt_mi[j] >= input_mi[j]

\* Mutant: "contrib /= factorial(n-k)" is left out.
RECURSIVE ContribFrom_NoFactorial(_, _, _, _, _, _)
ContribFrom_NoFactorial(contrib, j, tgt_mi, input_mi, dv, trs) ==
    IF j > zip_len(tgt_mi, input_mi, dv) THEN contrib
    ELSE ContribFrom_NoFactorial(
            RMul(contrib, RPow(Rat(dv[j], trs), tgt_mi[j] - input_mi[j])),
            j + 1, tgt_mi, input_mi, dv, trs)

\* contrib /= factorial(n-k); contrib *= (dist/tgt_rscale)**(n-k), from the
\* j-th triple of the zip on.
RECURSIVE ContribFrom(_, _, _, _, _, _)
ContribFrom(contrib, j, tgt_mi, input_mi, dv, trs) ==
    IF j > zip_len(tgt_mi, input_mi, dv) THEN contrib
    ELSE LET n == tgt_mi[j]
             k == input_mi[j]
         IN  ContribFrom(
                RMul(RDiv(contrib, RInt(factorial(n - k))),
                     RPow(Rat(dv[j], trs), n - k)),
                j + 1, tgt_mi, input_mi, dv, trs)

\* Every order in which "for d in dims" could sweep the dimensions.
dims_orders(dim) ==
    {List(f) : f \in {g \in [1..dim -> 0..(dim - 1)] :
                        \A i, j \in 1..dim : g[i] = g[j] => i = j}}

\* A pass whose contributions are also weighted by the degree of the input
\* multi-index, so that it no longer acts along the axis d alone.
sweep_axis_WeightedByDegree(tgt, input, d, dv, trs) ==
    LET full == get_full_coefficient_identifiers(tgt)
    IN  List([i \in 1..Len(full) |->
            RSumSeq([m \in 1..(full[i][d + 1] + 1) |->
                LET input_mi == mi_set_axis(full[i], d, m - 1)
                IN  RMul(RInt(SumSeq(input_mi) + 1),
                         ContribFrom(input[IndexOf(full, input_mi)], 1,
                                     full[i], input_mi, dv, trs))])])

\* One pass of "for d in dims": cur_dim_output_coeffs from
\* cur_dim_input_coeffs.
sweep_axis(tgt, input, d, dv, trs) ==
    LET full == get_full_coefficient_identifiers(tgt)
    IN  List([i \in 1..Len(full) |->
            RSumSeq([m \in 1..(full[i][d + 1] + 1) |->
                LET input_mi == mi_set_axis(full[i], d, m - 1)
                IN  ContribFrom(input[IndexOf(full, input_mi)], 1,
                                full[i], input_mi, dv, trs)])])

RECURSIVE sweep_all(_, _, _, _, _)
sweep_all(tgt, input, dims, dv, trs) ==
    IF dims = <<>> THEN input
    ELSE sweep_all(tgt, sweep_axis(tgt, input, Head(dims), dv, trs),
                   Tail(dims), dv, trs)

\* Whether every "assert n >= k" of the passes of one axis holds.
axis_assertions(tgt, ax, dv) ==
    LET full == get_full_coefficient_identifiers(tgt)
    IN  \A i \in 1..Len(full) : \A d \in 0..(tgt.dim - 1) :
            \A m \in 0..full[i][d + 1] :
                SweepAssertion(full[i], mi_set_axis(full[i], d, m), dv)

\* The "simpler, functionally equivalent code" (_fast_version=False).
\* src_coeff_exprs[i] *= mi_factorial(mi) changes the caller's list.
reference_coeffs(src, coeffs) ==
    LET src_ids == get_coefficient_identifiers(src)
    IN  List([i \in 1..Len(coeffs) |->
            RMul(coeffs[i], RInt(mi_factorial(src_ids[i])))])

\* Mutant: the binomial coefficient is left out.
RECURSIVE ReferenceContribFrom_NoBinomial(_, _, _, _, _, _)
ReferenceContribFrom_NoBinomial(contrib, idim, tgt_mi, src_mi, dv, trs) ==
    IF idim > Len(tgt_mi) THEN contrib
    ELSE ReferenceContribFrom_NoBinomial(
            RMul(contrib,
                 RPow(Rat(dv[idim], trs), tgt_mi[idim] - src_mi[idim])),
            idim + 1, tgt_mi, src_mi, dv, trs)

\* contrib *= binomial(n, k) * (dvec[idim]/tgt_rscale)**(n-k), from
\* dimension idim on.
RECURSIVE ReferenceContribFrom(_, _, _, _, _, _)
ReferenceContribFrom(contrib, idim, tgt_mi, src_mi, dv, trs) ==
    IF idim > Len(tgt_mi) THEN contrib
    ELSE LET n == tgt_mi[idim]
             k == src_mi[idim]
         IN  ReferenceContribFrom(
                RMul(contrib, RMul(RInt(binomial(n, k)),
                                   RPow(Rat(dv[idim], trs), n - k))),
                idim + 1, tgt_mi, src_mi, dv, trs)

reference_result(tgt, src, coeffs, srs, trs, dv) ==
    LET full == get_full_coefficient_identifiers(tgt)
        src_ids == get_coefficient_identifiers(src)
        scaled == reference_coeffs(src, coeffs)
        src_mis == Range(src_ids)
    IN  List([i \in 1..Len(full) |->
            LET below == gnitb([j \in 1..Len(full[i]) |-> full[i][j] + 1])
                terms == SelectSeq(below, LAMBDA mi : mi \in src_mis)
            IN  RDiv(RSumSeq([t \in 1..Len(terms) |->
                        RMul(ReferenceContribFrom(
                                scaled[IndexOf(src_ids, terms[t])], 1,
                                full[i], terms[t], dv, trs),
                             RPow(Rat(srs, trs), SumSeq(terms[t])))]),
                     RInt(mi_factorial(full[i])))])

\* ExpansionTermsWrangler.get_stored_mpole_coefficients_from_full.  The plain
\* Taylor expansion stores the full vector as it is; the projection of a
\* compressed expansion is the kernel family's and stays an application.
get_stored_mpole_coefficients_from_full(exp, full_coeffs, rscale) ==
    IF exp.family = "full" THEN full_coeffs
    ELSE [projection |-> exp.family, full |-> full_coeffs, rscale |-> rscale]

ZeroVector(n) == [i \in 1..n |-> RZero]
NoWrites(dim) == [a \in 0..(dim - 1) |-> <<>>]

RAddVec(u, v) == List([i \in 1..Len(u) |-> RAdd(u[i], v[i])])

\* isinstance(src_expansion, type(self)): the expansion classes are one per
\* family and none is a subclass of another; the dimension is that of the
\* kernel and not part of the class.
isinstance(src, tgt) == src.family = tgt.family

\* translate_from up to the axis loop: the isinstance check and the locals.
TranslateFromEnter ==
    /\ pc = "call"
    /\ IF ~isinstance(src_expansion, tgt_expansion)
       THEN /\ pc' = "RuntimeError"
            /\ UNCHANGED <<result, written>>
       ELSE /\ pc' = "axis"
            /\ result' = ZeroVector(
                    Len(get_full_coefficient_identifiers(tgt_expansion)))
            /\ written' = NoWrites(tgt_expansion.dim)
    /\ axis' = 0
    /\ UNCHANGED <<tgt_expansion, src_expansion, src_coeff_exprs, src_rscale,
                   dvec, tgt_rscale, fast_version, returned, leg, first_coeffs>>
    /\ UNCHANGED m2l_only
    /\ UNCHANGED cache_vars

\* One iteration of "for axis in range(self.dim)".
AxisPass ==
    /\ pc = "axis"
    /\ axis < tgt_expansion.dim
    /\ LET srs == m2m_rscale(tgt_expansion, src_rscale)
           trs == m2m_rscale(tgt_expansion, tgt_rscale)
           input == cur_dim_input_coeffs(tgt_expansion, src_expansion,
                        src_coeff_exprs, srs, trs, axis)
       IN  /\ written' = [written EXCEPT ![axis] =
                    InputWrites(tgt_expansion, src_expansion, axis)]
           /\ IF \A i \in 1..Len(input) : input[i] = RZero
              THEN /\ pc' = "axis"
                   /\ result' = result
              ELSE IF ~axis_assertions(tgt_expansion, axis, dvec)
              THEN /\ pc' = "AssertionError"
                   /\ result' = result
              ELSE /\ pc' = "axis"
                   /\ result' = RAddVec(result,
                        sweep_all(tgt_expansion, input,
                                  sweep_dims(axis, tgt_expansion.dim),
                                  dvec, trs))
    /\ axis' = axis + 1
    /\ UNCHANGED <<tgt_expansion, src_expansion, src_coeff_exprs, src_rscale,
                   dvec, tgt_rscale, fast_version, returned, leg, first_coeffs>>
    /\ UNCHANGED m2l_only
    /\ UNCHANGED cache_vars

\* After the axis loop: the reference code when _fast_version is False, then
\* the projection to stored form.
TranslateFromReturn ==
    /\ pc = "axis"
    /\ axis = tgt_expansion.dim
    /\ LET srs == m2m_rscale(tgt_expansion, src_rscale)
           trs == m2m_rscale(tgt_expansion, tgt_rscale)
       IN  /\ result' = IF fast_version THEN result
                        ELSE reference_result(tgt_expansion, src_expansion,
                                src_coeff_exprs, srs, trs, dvec)
           /\ src_coeff_exprs' =
                IF fast_version THEN src_coeff_exprs
                ELSE reference_coeffs(src_expansion, src_coeff_exprs)
           /\ returned' = get_stored_mpole_coefficients_from_full(
                                tgt_expansion, result', trs)
    /\ pc' = "done"
    /\ UNCHANGED <<tgt_expansion, src_expansion, src_rscale, dvec, tgt_rscale,
                   fast_version, axis, written, leg, first_coeffs>>
    /\ UNCHANGED m2l_only
    /\ UNCHANGED cache_vars

\* The caller translates the result back: the target becomes the source,
\* the displacement is negated and the rscales change places.
TranslateBack ==
    /\ pc = "done"
    /\ leg = 1
    /\ tgt_expansion.family = "full"
    /\ tgt_expansion' = src_expansion
    /\ src_expansion' = tgt_expansion
    /\ src_coeff_exprs' = returned
    /\ dvec' = [j \in DOMAIN dvec |-> 0 - dvec[j]]
    /\ src_rscale' = tgt_rscale
    /\ tgt_rscale' = src_rscale
    /\ leg' = 2
    /\ pc' = "call"
    /\ UNCHANGED <<fast_version, axis, result, written, returned, first_coeffs>>
    /\ UNCHANGED m2l_only
    /\ UNCHANGED cache_vars

\* ------------------------------------------------------- M2M: the calls

\* Source coefficient vectors of length n: the zero vector, the unit
\* vectors and dense vectors with entries in -1..1.
CoeffVectors(n) ==
    {[i \in 1..n |-> IF i = j THEN RInt(1) ELSE RZero] : j \in 0..n}
    \cup {[i \in 1..n |-> RInt(((2 * i) % 3) - 1)]}

\* <<use_rscale, src_rscale, tgt_rscale>>: unequal and equal rscales, and
\* one expansion that ignores rscale.
RscaleCases ==
    {<<TRUE, 1, MaxRscale>>, <<TRUE, MaxRscale, 1>>,
     <<TRUE, MaxRscale, MaxRscale + 1>>, <<FALSE, MaxRscale, 1>>}

InitM2M ==
    \E dim \in Dims, ps \in Orders, pt \in Orders, rc \in RscaleCases :
    \E family \in Families(dim) :
        /\ src_expansion = Expansion(dim, ps, family, rc[1])
        /\ tgt_expansion = Expansion(dim, pt, family, rc[1])
        /\ src_coeff_exprs \in
                CoeffVectors(Len(get_coefficient_identifiers(src_expansion)))
        /\ dvec \in [1..dim -> DistValues]
        /\ src_rscale = rc[2]
        /\ tgt_rscale = rc[3]
        /\ fast_version \in BOOLEAN
        /\ pc = "call"
        /\ axis = 0
        /\ result = <<>>
        /\ written = <<>>
        /\ returned = <<>>
        /\ leg = 1
        /\ first_coeffs = src_coeff_exprs
        /\ m2l_translation = "none"
        /\ kernel = 0
        /\ derivatives = <<>>
        /\ preprocessed_exprs = <<>>
        /\ m2l_result = <<>>
        /\ local_exprs = <<>>
        /\ precomputed_data = <<>>
        /\ cache = EmptyCache
        /\ callers = IdleCallers

NextM2M ==
    \/ TranslateFromEnter
    \/ AxisPass
    \/ TranslateFromReturn
    \/ TranslateBack

SpecM2M == InitM2M /\ [][NextM2M]_vars

\* ---------------------------------- M2M: calls with unlike expansions

\* The kinds of expansion: <<dimension, family>>.
ExpansionKinds ==
    {<<d, f>> : d \in Dims, f \in {"full"}}
        \cup {<<2, "pde">>, <<2, "bessel">>}

\* translate_from called with a source expansion of another class or of
\* another dimension than the target expansion.
InitM2MMismatch ==
    \E sk \in ExpansionKinds, tk \in ExpansionKinds :
    \E ps \in Orders, pt \in Orders :
        /\ sk # tk
        /\ src_expansion = Expansion(sk[1], ps, sk[2], TRUE)
        /\ tgt_expansion = Expansion(tk[1], pt, tk[2], TRUE)
        /\ src_coeff_exprs \in
                CoeffVectors(Len(get_coefficient_identifiers(src_expansion)))
        /\ dvec \in [1..tk[1] -> DistValues]
        /\ src_rscale = 1
        /\ tgt_rscale = MaxRscale
        /\ fast_version \in BOOLEAN
        /\ pc = "call"
        /\ axis = 0
        /\ result = <<>>
        /\ written = <<>>
        /\ returned = <<>>
        /\ leg = 1
        /\ first_coeffs = src_coeff_exprs
        /\ m2l_translation = "none"
        /\ kernel = 0
        /\ derivatives = <<>>
        /\ preprocessed_exprs = <<>>
        /\ m2l_result = <<>>
        /\ local_exprs = <<>>
        /\ precomputed_data = <<>>
        /\ cache = EmptyCache
        /\ callers = IdleCallers

NextM2MMismatch ==
    \/ TranslateFromEnter
    \/ AxisPass
    \/ TranslateFromReturn

SpecM2MMismatch == InitM2MMismatch /\ [][NextM2MMismatch]_vars

\* ------------------------------------------ M2L: the external functions

Max(S) == CHOOSE x \in S : \A y \in S : y <= x

RECURSIVE FSumTo(_, _, _)
FSumTo(q, f, n) == IF n = 0 THEN 0 ELSE (f[n] + FSumTo(q, f, n - 1)) % q

\* The kernels of the expansions.
Kernels == {1, 2}

\* taker.diff(mi) of kernel.get_derivative_taker(dvec, rscale, sac): the
\* kernel is not part of the translations, so its derivatives are a fixed
\* function of the kernel, the multi-index, the displacement and the rscale.
kernel_derivative(q, k, mi, dv, rscale) ==
    LET weighted == [i \in DOMAIN mi |->
                        (mi[i] + 1) * (dv[i] + 3) * (i + k)]
    IN  (k + 7 * SumSeq(List(weighted))
           + rscale * (SumSeq(mi) + 1) * (SumSeq(mi) + 2)) % q

\* Hankel1(k, arg_scale * |dvec|) * exp(i k atan2(dvec[1], dvec[0])): a fixed
\* function of the kernel, the order k and the displacement, never zero.
hankel_term(q, k, n, dv) ==
    1 + ((k + (n + 9) * (n + 10) + 3 * (dv[1] + 3) + 5 * (dv[2] + 3)) % (q - 1))

\* sumpy.tools.matvec_toeplitz_upper_triangular: the product of the upper
\* triangular Toeplitz matrix with the given first row and a vector.
matvec_toeplitz_upper_triangular(q, first_row, vector) ==
    LET n == Len(first_row)
    IN  List([row \in 1..n |->
            FSumTo(q, List([c \in 1..(n - row + 1) |->
                        FMul(q, first_row[c], vector[row + c - 1])]),
                   n - row + 1)])

\* sumpy.tools.fft: the discrete Fourier transform of the length of the
\* input, and its inverse.
fft(q, x) ==
    LET n == Len(x)
        pw == RootPowersTable[n]
    IN  List([k \in 1..n |->
            FSumTo(q, List([j \in 1..n |->
                        FMul(q, x[j], pw[(((j - 1) * (k - 1)) % n) + 1])]), n)])

ifft(q, x) ==
    LET n == Len(x)
        pw == RootPowersTable[n]
        ninv == FInv(q, n)
    IN  List([k \in 1..n |->
            FMul(q, ninv,
                FSumTo(q, List([j \in 1..n |->
                        FMul(q, x[j],
                             pw[((n - (((j - 1) * (k - 1)) % n)) % n) + 1])]),
                       n))])

\* ------------------------------------------------- M2L: Cartesian Taylor

\* A numbering whose max_mi leaves out the target identifiers.
data_mis_SourceOnly(tgt, src) ==
    LET dim == tgt.dim
        src_ids == get_coefficient_identifiers(src)
        tgt_ids == get_coefficient_identifiers(tgt)
        max_mi == [i \in 1..dim |->
                    Max({src_ids[j][i] : j \in DOMAIN src_ids})]
    IN  [circulant_matrix_mis |-> gnitb(List([i \in 1..dim |-> max_mi[i] + 1])),
         needed_vector_terms |->
            {add_mi(src_ids[a], tgt_ids[b]) :
                a \in DOMAIN src_ids, b \in DOMAIN tgt_ids},
         max_mi |-> List(max_mi)]

\* A numbering whose slots are ordered by total degree.
data_mis_ByDegree(tgt, src) ==
    LET dim == tgt.dim
        src_ids == get_coefficient_identifiers(src)
        tgt_ids == get_coefficient_identifiers(tgt)
        max_mi == [i \in 1..dim |->
                    Max({src_ids[j][i] : j \in DOMAIN src_ids})
                    + Max({tgt_ids[j][i] : j \in DOMAIN tgt_ids})]
    IN  [circulant_matrix_mis |->
            SortedBySum(gnitb(List([i \in 1..dim |-> max_mi[i] + 1])),
                        dim * (src.order + tgt.order)),
         needed_vector_terms |->
            {add_mi(src_ids[a], tgt_ids[b]) :
                a \in DOMAIN src_ids, b \in DOMAIN tgt_ids},
         max_mi |-> List(max_mi)]

\* VolumeTaylorM2LTranslation._translation_classes_dependent_data_mis
data_mis(tgt, src) ==
    LET dim == tgt.dim
        src_ids == get_coefficient_identifiers(src)
        tgt_ids == get_coefficient_identifiers(tgt)
        max_mi == [i \in 1..dim |->
                    Max({src_ids[j][i] : j \in DOMAIN src_ids})
                    + Max({tgt_ids[j][i] : j \in DOMAIN tgt_ids})]
    IN  [circulant_matrix_mis |-> gnitb(List([i \in 1..dim |-> max_mi[i] + 1])),
         needed_vector_terms |->
            {add_mi(src_ids[a], tgt_ids[b]) :
                a \in DOMAIN src_ids, b \in DOMAIN tgt_ids},
         max_mi |-> List(max_mi)]

\* The numbering depends on the dimension and the two orders only.
DataMisTable ==
    [d \in Dims, ps \in Orders, pt \in Orders |->
        data_mis(Expansion(d, pt, "full", TRUE), Expansion(d, ps, "full", TRUE))]

translation_classes_dependent_data_mis(tgt, src) ==
    DataMisTable[tgt.dim, src.order, tgt.order]

circulant_matrix_mis(tgt, src) ==
    translation_classes_dependent_data_mis(tgt, src).circulant_matrix_mis

needed_vector_terms(tgt, src) ==
    translation_classes_dependent_data_mis(tgt, src).needed_vector_terms

\* circulant_matrix_ident_to_index, counted from 1.
circulant_matrix_ident_to_index(tgt, src, mi) ==
    IndexOf(circulant_matrix_mis(tgt, src), mi)

\* The scalars of a translation between two expansions.
Modulus(tgt, src) ==
    IF tgt.family = "bessel" THEN ModulusTable[1]
    ELSE ModulusTable[Len(circulant_matrix_mis(tgt, src))]

\* expansion_terms_wrangler.copy(order=..., max_mi=...)
\*     .get_full_coefficient_identifiers()
srcplusderiv_full_coeff_ids(tgt, src) ==
    LET m == translation_classes_dependent_data_mis(tgt, src).max_mi
    IN  SelectSeq(FullIdsTable[src.dim, tgt.order + src.order],
                  LAMBDA mi : \A i \in DOMAIN mi : mi[i] <= m[i])

\* get_full_kernel_derivatives_from_stored of the plain Taylor wrangler,
\* which stores every derivative.
get_full_kernel_derivatives_from_stored(src, vector_stored, rscale) ==
    vector_stored

\* for term in srcplusderiv_full_coeff_ids: assert term in needed_vector_terms
data_assertion(tgt, src) ==
    Range(srcplusderiv_full_coeff_ids(tgt, src))
        \subseteq needed_vector_terms(tgt, src)

\* The data without "if not tgt_expansion.use_rscale: src_rscale = 1".
VolumeTaylor_translation_classes_dependent_data_KeepRscale(tgt, src, srs, dv, k) ==
    LET q == Modulus(tgt, src)
        circ == circulant_matrix_mis(tgt, src)
        needed == needed_vector_terms(tgt, src)
        ids == srcplusderiv_full_coeff_ids(tgt, src)
        vector_full == List([j \in 1..Len(ids) |->
                            kernel_derivative(q, k, ids[j], dv, srs)])
    IN  List([p \in 1..Len(circ) |->
            IF circ[p] \in needed
            THEN vector_full[IndexOf(ids, circ[p])]
            ELSE 0])

\* VolumeTaylorM2LTranslation.translation_classes_dependent_data
VolumeTaylor_translation_classes_dependent_data(tgt, src, srs, dv, k) ==
    LET q == Modulus(tgt, src)
        rscale == IF tgt.use_rscale THEN srs ELSE 1
        circ == circulant_matrix_mis(tgt, src)
        needed == needed_vector_terms(tgt, src)
        ids == srcplusderiv_full_coeff_ids(tgt, src)
        vector_stored == List([j \in 1..Len(ids) |->
                            kernel_derivative(q, k, ids[j], dv, rscale)])
        vector_full == get_full_kernel_derivatives_from_stored(
                            src, vector_stored, rscale)
    IN  List([p \in 1..Len(circ) |->
            IF circ[p] \in needed
            THEN vector_full[IndexOf(ids, circ[p])]
            ELSE 0])

\* The needed multi-indices in the order of the circulant space.
needed_in_slot_order(tgt, src) ==
    SelectSeq(circulant_matrix_mis(tgt, src),
              LAMBDA mi : mi \in needed_vector_terms(tgt, src))

\* Orders in which tuple(needed_vector_terms) may enumerate the set: the
\* slot order, its rotations, and the reverse of each.
needed_vector_terms_orders(tgt, src) ==
    LET base == needed_in_slot_order(tgt, src)
        n == Len(base)
        rotated(r) == [i \in 1..n |-> base[((i - 1 + r) % n) + 1]]
    IN  {List(rotated(r)) : r \in 0..(n - 1)}
            \cup {List(Reversed(rotated(r))) : r \in 0..(n - 1)}

\* A filling loop that pairs the vector with the needed multi-indices in
\* slot order, whatever order the vector was built in.
derivatives_full_SlotOrderZip(tgt, src, srs, dv, k, needed) ==
    LET q == Modulus(tgt, src)
        rscale == IF tgt.use_rscale THEN srs ELSE 1
        circ == circulant_matrix_mis(tgt, src)
        ids == srcplusderiv_full_coeff_ids(tgt, src)
        vector_stored == List([j \in 1..Len(ids) |->
                            kernel_derivative(q, k, ids[j], dv, rscale)])
        vector_full == get_full_kernel_derivatives_from_stored(
                            src, vector_stored, rscale)
        vector == List([i \in 1..Len(needed) |->
                        vector_full[IndexOf(ids, needed[i])]])
        zipped == needed_in_slot_order(tgt, src)
    IN  List([p \in 1..Len(circ) |->
            IF circ[p] \in Range(zipped)
            THEN vector[IndexOf(zipped, circ[p])]
            ELSE 0])

\* translation_classes_dependent_data with the order in which the tuple
\* needed_vector_terms enumerates the set made explicit: vector is built by
\* enumerate(needed_vector_terms), and derivatives_full is filled from
\* zip(vector, needed_vector_terms).
derivatives_full(tgt, src, srs, dv, k, needed) ==
    LET q == Modulus(tgt, src)
        rscale == IF tgt.use_rscale THEN srs ELSE 1
        circ == circulant_matrix_mis(tgt, src)
        ids == srcplusderiv_full_coeff_ids(tgt, src)
        vector_stored == List([j \in 1..Len(ids) |->
                            kernel_derivative(q, k, ids[j], dv, rscale)])
        vector_full == get_full_kernel_derivatives_from_stored(
                            src, vector_stored, rscale)
        vector == List([i \in 1..Len(needed) |->
                        vector_full[IndexOf(ids, needed[i])]])
    IN  List([p \in 1..Len(circ) |->
            IF circ[p] \in Range(needed)
            THEN vector[IndexOf(needed, circ[p])]
            ELSE 0])

\* A counter that counts the needed sums instead of the circulant slots.
VolumeTaylor_translation_classes_dependent_ndata_NeededCount(tgt, src) ==
    Cardinality(needed_vector_terms(tgt, src))

\* VolumeTaylorM2LTranslation.translation_classes_dependent_ndata
VolumeTaylor_translation_classes_dependent_ndata(tgt, src) ==
    Len(circulant_matrix_mis(tgt, src))

\* A preprocessing that copies the coefficients to the first slots instead
\* of the slots of their multi-indices.
VolumeTaylor_preprocess_multipole_exprs_Unpadded(tgt, src, coeffs) ==
    LET circ == circulant_matrix_mis(tgt, src)
    IN  List([p \in 1..Len(circ) |->
            IF p <= Len(coeffs) THEN coeffs[p] ELSE 0])

\* VolumeTaylorM2LTranslation.preprocess_multipole_exprs
VolumeTaylor_preprocess_multipole_exprs(tgt, src, coeffs) ==
    LET circ == circulant_matrix_mis(tgt, src)
        src_ids == get_coefficient_identifiers(src)
    IN  List([p \in 1..Len(circ) |->
            IF \E j \in DOMAIN src_ids : j <= Len(coeffs) /\ src_ids[j] = circ[p]
            THEN coeffs[IndexOf(src_ids, circ[p])]
            ELSE 0])

\* VolumeTaylorM2LTranslation.preprocess_multipole_nexprs
VolumeTaylor_preprocess_multipole_nexprs(tgt, src) ==
    Len(circulant_matrix_mis(tgt, src))

\* A postprocessing that scales every row and drops none.
VolumeTaylor_postprocess_local_exprs_NoFilter(tgt, src, res, srs, trs) ==
    LET q == Modulus(tgt, src)
        rscale_ratio == FDiv(q, trs, srs)
        circ == circulant_matrix_mis(tgt, src)
    IN  List([j \in 1..Len(circ) |->
            FMul(q, res[j], FPow(q, rscale_ratio, SumSeq(circ[j])))])

\* VolumeTaylorM2LTranslation.postprocess_local_exprs
VolumeTaylor_postprocess_local_exprs(tgt, src, res, srs, trs) ==
    LET q == Modulus(tgt, src)
        rscale_ratio == FDiv(q, trs, srs)
        tgt_ids == get_coefficient_identifiers(tgt)
    IN  List([j \in 1..Len(tgt_ids) |->
            FMul(q, res[circulant_matrix_ident_to_index(tgt, src, tgt_ids[j])],
                 FPow(q, rscale_ratio, SumSeq(tgt_ids[j])))])

\* VolumeTaylorM2LTranslation.postprocess_local_nexprs
VolumeTaylor_postprocess_local_nexprs(tgt, src) ==
    VolumeTaylor_translation_classes_dependent_ndata(tgt, src)

\* VolumeTaylorM2LTranslation.translate, without precomputed data.
VolumeTaylor_translate(tgt, src, coeffs, srs, dv, trs, k) ==
    LET q == Modulus(tgt, src)
        data == VolumeTaylor_translation_classes_dependent_data(
                    tgt, src, srs, dv, k)
        pre == VolumeTaylor_preprocess_multipole_exprs(tgt, src, coeffs)
        res == matvec_toeplitz_upper_triangular(q, pre, data)
    IN  VolumeTaylor_postprocess_local_exprs(tgt, src, res, srs, trs)

\* ------------------------------------------------- M2L: Cartesian, FFT

\* The transformed data without the reversal.
WithFFT_translation_classes_dependent_data_NoReverse(tgt, src, srs, dv, k) ==
    fft(Modulus(tgt, src),
        VolumeTaylor_translation_classes_dependent_data(tgt, src, srs, dv, k))

\* VolumeTaylorM2LWithFFT.translation_classes_dependent_data
WithFFT_translation_classes_dependent_data(tgt, src, srs, dv, k) ==
    fft(Modulus(tgt, src),
        Reversed(VolumeTaylor_translation_classes_dependent_data(
                    tgt, src, srs, dv, k)))

\* VolumeTaylorM2LWithFFT.preprocess_multipole_exprs
WithFFT_preprocess_multipole_exprs(tgt, src, coeffs) ==
    fft(Modulus(tgt, src),
        VolumeTaylor_preprocess_multipole_exprs(tgt, src, coeffs))

\* VolumeTaylorM2LWithFFT.translate, after its assertions.
WithFFT_translate(tgt, src, coeffs, data) ==
    LET q == Modulus(tgt, src)
        n == IF Len(data) < Len(coeffs) THEN Len(data) ELSE Len(coeffs)
    IN  List([i \in 1..n |-> FMul(q, data[i], coeffs[i])])

\* A postprocessing that does not reverse the inverse transform.
WithFFT_postprocess_local_exprs_NoReverse(tgt, src, res, srs, trs) ==
    LET n == Len(circulant_matrix_mis(tgt, src))
        back == ifft(Modulus(tgt, src), res)
        first == SubSeq(back, 1, IF n < Len(back) THEN n ELSE Len(back))
    IN  VolumeTaylor_postprocess_local_exprs(tgt, src, first, srs, trs)

\* VolumeTaylorM2LWithFFT.postprocess_local_exprs
WithFFT_postprocess_local_exprs(tgt, src, res, srs, trs) ==
    LET n == Len(circulant_matrix_mis(tgt, src))
        back == ifft(Modulus(tgt, src), res)
        first == SubSeq(back, 1, IF n < Len(back) THEN n ELSE Len(back))
    IN  VolumeTaylor_postprocess_local_exprs(
            tgt, src, List(Reversed(first)), srs, trs)

\* ------------------------------------------------- M2L: Fourier-Bessel

\* FourierBesselM2LTranslation.translation_classes_dependent_ndata
FourierBessel_translation_classes_dependent_ndata(tgt, src) ==
    2 * tgt.order + 2 * src.order + 1

\* Data whose loop runs over the target identifiers only, with m = 0.
FourierBessel_translation_classes_dependent_data_NoSourceLoop(tgt, src, srs, dv, k) ==
    LET q == Modulus(tgt, src)
        tgt_ids == get_coefficient_identifiers(tgt)
    IN  List([p \in 1..(2 * tgt.order + 2 * src.order + 1) |->
            IF \E j \in Range(tgt_ids) :
                    get_storage_index(tgt, j) + get_storage_index(src, 0) = p - 1
            THEN hankel_term(q, k, (p - 1) - tgt.order - src.order, dv)
            ELSE 0])

\* FourierBesselM2LTranslation.translation_classes_dependent_data: position
\* idx_j + idx_m holds the term of m + j.
FourierBessel_translation_classes_dependent_data(tgt, src, srs, dv, k) ==
    LET q == Modulus(tgt, src)
        tgt_ids == get_coefficient_identifiers(tgt)
        src_ids == get_coefficient_identifiers(src)
    IN  List([p \in 1..(2 * tgt.order + 2 * src.order + 1) |->
            IF \E j \in Range(tgt_ids), m \in Range(src_ids) :
                    get_storage_index(tgt, j) + get_storage_index(src, m) = p - 1
            THEN hankel_term(q, k, (p - 1) - tgt.order - src.order, dv)
            ELSE 0])

\* FourierBesselM2LTranslation.preprocess_multipole_exprs
FourierBessel_preprocess_multipole_exprs(tgt, src, coeffs, srs) ==
    LET q == Modulus(tgt, src)
    IN  List([i \in 1..Len(coeffs) |->
            FMul(q, coeffs[i], FPow(q, srs, Abs(i - 1 - src.order)))])

\* FourierBesselM2LTranslation.preprocess_multipole_nexprs
FourierBessel_preprocess_multipole_nexprs(tgt, src) == 2 * src.order + 1

\* translated_coeffs of the two FourierBessel translate methods.
FourierBessel_translated_coeffs(tgt, src, coeffs, data) ==
    LET q == Modulus(tgt, src)
        tgt_ids == get_coefficient_identifiers(tgt)
        src_ids == get_coefficient_identifiers(src)
    IN  List([a \in 1..Len(tgt_ids) |->
            FSumTo(q, List([b \in 1..Len(src_ids) |->
                FMul(q, data[src_ids[b] + tgt_ids[a]
                                + tgt.order + src.order + 1],
                     coeffs[get_storage_index(src, src_ids[b]) + 1])]),
                Len(src_ids))])

\* A postprocessing without the factor (-1)^j.
FourierBessel_postprocess_local_exprs_NoSign(tgt, src, res, srs, trs) ==
    LET q == Modulus(tgt, src)
        tgt_ids == get_coefficient_identifiers(tgt)
    IN  List([a \in 1..Len(tgt_ids) |->
            FMul(q, res[get_storage_index(tgt, tgt_ids[a]) + 1],
                 FPow(q, trs, Abs(tgt_ids[a])))])

\* FourierBesselM2LTranslation.postprocess_local_exprs
FourierBessel_postprocess_local_exprs(tgt, src, res, srs, trs) ==
    LET q == Modulus(tgt, src)
        tgt_ids == get_coefficient_identifiers(tgt)
    IN  List([a \in 1..Len(tgt_ids) |->
            FMul(q, FMul(q, res[get_storage_index(tgt, tgt_ids[a]) + 1],
                         FPow(q, trs, Abs(tgt_ids[a]))),
                 FPow(q, FNeg(q, 1), Abs(tgt_ids[a])))])

\* FourierBesselM2LTranslation.postprocess_local_nexprs
FourierBessel_postprocess_local_nexprs(tgt, src) == 2 * tgt.order + 1

\* ------------------------------------ M2L: Fourier-Bessel with FFT

\* FourierBesselM2LWithFFT.translation_classes_dependent_data: the last
\* column of the M2L matrix, then its first row (reversed twice), then the
\* transform, over the scalars of a transform of that length.
BesselFFT_translation_classes_dependent_data(tgt, src, srs, dv, k) ==
    LET data == FourierBessel_translation_classes_dependent_data(
                    tgt, src, srs, dv, k)
        order == src.order
        first_row_m2l == SubSeq(data, 1, 2 * order)
        last_column_m2l == SubSeq(data, 2 * order + 1, Len(data))
        first_column_toeplitz == last_column_m2l
        first_row_toeplitz == List(Reversed(first_row_m2l))
        first_column_circulant ==
            first_column_toeplitz \o List(Reversed(first_row_toeplitz))
    IN  fft(ModulusTable[Len(first_column_circulant)], first_column_circulant)

\* FourierBesselM2LWithFFT.preprocess_multipole_exprs: reversed, padded
\* with len(result) - 1 zeros, transformed.
BesselFFT_preprocess_multipole_exprs(tgt, src, coeffs, srs) ==
    LET mirrored == List(Reversed(
                        FourierBessel_preprocess_multipole_exprs(
                            tgt, src, coeffs, srs)))
        padded == mirrored \o [i \in 1..(Len(mirrored) - 1) |-> 0]
    IN  fft(ModulusTable[Len(padded)], padded)

\* FourierBesselM2LWithFFT.translate past its assertions.
BesselFFT_translate(tgt, src, coeffs, data) ==
    LET q == ModulusTable[Len(data)]
    IN  List([i \in 1..Len(data) |-> FMul(q, data[i], coeffs[i])])

\* FourierBesselM2LWithFFT.postprocess_local_exprs
BesselFFT_postprocess_local_exprs(tgt, src, res, srs, trs) ==
    LET inv == ifft(ModulusTable[Len(res)], res)
    IN  FourierBessel_postprocess_local_exprs(
            tgt, src, SubSeq(inv, 1, 2 * tgt.order + 1), srs, trs)

\* ------------------------------------------------- M2L: the strategies

\* The translation classes that can be constructed.
VolumeTaylorClasses ==
    {"VolumeTaylorM2LTranslation", "VolumeTaylorM2LWithPreprocessedMultipoles",
     "VolumeTaylorM2LWithFFT"}

FourierBesselClasses ==
    {"FourierBesselM2LTranslation", "FourierBesselM2LWithPreprocessedMultipoles"}

M2LTranslations == VolumeTaylorClasses \cup FourierBesselClasses

\* The translation classes of the module, and those for Fourier-Bessel
\* expansions among them.
M2LClassNames == M2LTranslations \cup {"FourierBesselM2LWithFFT"}

BesselClassNames == FourierBesselClasses \cup {"FourierBesselM2LWithFFT"}

\* A constructor that raises nothing.
init_raises_Never(cls) == FALSE

\* __init__ raises: FourierBesselM2LWithFFT.__init__ raises ValueError, the
\* other classes have no __init__ of their own.
init_raises(cls) == cls = "FourierBesselM2LWithFFT"

\* use_preprocessing: the caller runs the stages around translate itself.
use_preprocessing(cls) ==
    cls \in {"VolumeTaylorM2LWithPreprocessedMultipoles",
             "VolumeTaylorM2LWithFFT",
             "FourierBesselM2LWithPreprocessedMultipoles",
             "FourierBesselM2LWithFFT"}

\* The methods as the class hierarchy resolves them.
translation_classes_dependent_data(cls, tgt, src, srs, dv, k) ==
    IF cls = "FourierBesselM2LWithFFT"
    THEN BesselFFT_translation_classes_dependent_data(tgt, src, srs, dv, k)
    ELSE IF cls \in FourierBesselClasses
    THEN FourierBessel_translation_classes_dependent_data(tgt, src, srs, dv, k)
    ELSE IF cls = "VolumeTaylorM2LWithFFT"
    THEN WithFFT_translation_classes_dependent_data(tgt, src, srs, dv, k)
    ELSE VolumeTaylor_translation_classes_dependent_data(tgt, src, srs, dv, k)

translation_classes_dependent_ndata(cls, tgt, src) ==
    IF cls \in BesselClassNames
    THEN FourierBessel_translation_classes_dependent_ndata(tgt, src)
    ELSE VolumeTaylor_translation_classes_dependent_ndata(tgt, src)

preprocess_multipole_exprs(cls, tgt, src, coeffs, srs) ==
    IF cls = "FourierBesselM2LWithFFT"
    THEN BesselFFT_preprocess_multipole_exprs(tgt, src, coeffs, srs)
    ELSE IF cls \in FourierBesselClasses
    THEN FourierBessel_preprocess_multipole_exprs(tgt, src, coeffs, srs)
    ELSE IF cls = "VolumeTaylorM2LWithFFT"
    THEN WithFFT_preprocess_multipole_exprs(tgt, src, coeffs)
    ELSE VolumeTaylor_preprocess_multipole_exprs(tgt, src, coeffs)

preprocess_multipole_nexprs(cls, tgt, src) ==
    IF cls \in BesselClassNames
    THEN FourierBessel_preprocess_multipole_nexprs(tgt, src)
    ELSE VolumeTaylor_preprocess_multipole_nexprs(tgt, src)

postprocess_local_exprs(cls, tgt, src, res, srs, trs) ==
    IF cls = "FourierBesselM2LWithFFT"
    THEN BesselFFT_postprocess_local_exprs(tgt, src, res, srs, trs)
    ELSE IF cls \in FourierBesselClasses
    THEN FourierBessel_postprocess_local_exprs(tgt, src, res, srs, trs)
    ELSE IF cls = "VolumeTaylorM2LWithFFT"
    THEN WithFFT_postprocess_local_exprs(tgt, src, res, srs, trs)
    ELSE VolumeTaylor_postprocess_local_exprs(tgt, src, res, srs, trs)

postprocess_local_nexprs(cls, tgt, src) ==
    IF cls \in BesselClassNames
    THEN FourierBessel_postprocess_local_nexprs(tgt, src)
    ELSE VolumeTaylor_postprocess_local_nexprs(tgt, src)

\* The product of the preprocessed source vector and the data in translate.
translate_product(cls, tgt, src, coeffs, data) ==
    IF cls = "FourierBesselM2LWithFFT"
    THEN BesselFFT_translate(tgt, src, coeffs, data)
    ELSE IF cls \in FourierBesselClasses
    THEN FourierBessel_translated_coeffs(tgt, src, coeffs, data)
    ELSE IF cls = "VolumeTaylorM2LWithFFT"
    THEN WithFFT_translate(tgt, src, coeffs, data)
    ELSE matvec_toeplitz_upper_triangular(Modulus(tgt, src), coeffs, data)

\* A loopy_translate that every class implements.
loopy_translate_AllImplemented(cls) == "kernel"

\* How loopy_translate ends, as the class resolves it: the base method and
\* that of FourierBesselM2LWithFFT raise NotImplementedError, that of
\* VolumeTaylorM2LWithPreprocessedMultipoles returns a kernel, and that of
\* FourierBesselM2LWithPreprocessedMultipoles calls
\* preprocess_multipole_nexprs with one argument of the two it takes.
loopy_translate(cls) ==
    IF cls \in {"VolumeTaylorM2LWithPreprocessedMultipoles",
                "VolumeTaylorM2LWithFFT"}
    THEN "kernel"
    ELSE IF cls = "FourierBesselM2LWithPreprocessedMultipoles"
    THEN "TypeError"
    ELSE "NotImplementedError"

\* Assertions that look at the lengths only.
translate_assertions_LengthOnly(cls, coeffs, data) ==
    cls \in {"VolumeTaylorM2LWithFFT", "FourierBesselM2LWithFFT"}
        => Len(coeffs) = Len(data)

\* The assertions of the translate methods that take precomputed data.
translate_assertions(cls, coeffs, data) ==
    /\ use_preprocessing(cls) => data # <<>>
    /\ cls \in {"VolumeTaylorM2LWithFFT", "FourierBesselM2LWithFFT"}
            => Len(coeffs) = Len(data)

\* ------------------------------------------------- M2L: the stages

\* The caller constructs the translation object.
Construct ==
    /\ pc = "init"
    /\ pc' = IF init_raises(m2l_translation) THEN "ValueError" ELSE "call"
    /\ UNCHANGED <<tgt_expansion, src_expansion, src_coeff_exprs, src_rscale,
                   dvec, tgt_rscale, returned>>
    /\ UNCHANGED m2l_only
    /\ UNCHANGED m2m_only
    /\ UNCHANGED cache_vars

\* The caller asks the translation object for a loopy kernel.
LoopyTranslate ==
    /\ pc = "call"
    /\ pc' = loopy_translate(m2l_translation)
    /\ UNCHANGED <<tgt_expansion, src_expansion, src_coeff_exprs, src_rscale,
                   dvec, tgt_rscale, returned>>
    /\ UNCHANGED m2l_only
    /\ UNCHANGED m2m_only
    /\ UNCHANGED cache_vars

\* What the kernel e2e built by
\* VolumeTaylorM2LWithPreprocessedMultipoles.loopy_translate leaves in coeff,
\* coeff being zero before: its one instruction adds
\* src_coeffs[icoeff_tgt] * data[icoeff_tgt] to coeff[icoeff_tgt], the
\* Toeplitz expression of the branch without FFT being overwritten before
\* the instruction is made. Without FFT the domain of icoeff_src,
\* icoeff_tgt <= icoeff_src < ncoeff_src, is declared and the instruction
\* does not mention it: the instruction runs once for every icoeff_tgt, or
\* once for every icoeff_src of that domain (nested).
e2e(cls, tgt, src, src_coeffs, data, nested) ==
    LET q == Modulus(tgt, src)
        ncoeff_src == preprocess_multipole_nexprs(cls, tgt, src)
        ncoeff_tgt == postprocess_local_nexprs(cls, tgt, src)
        runs(icoeff_tgt) ==
            IF cls = "VolumeTaylorM2LWithFFT" \/ ~nested
            THEN 1
            ELSE Max({0, ncoeff_src - icoeff_tgt})
    IN  List([i \in 1..ncoeff_tgt |->
            FMul(q, runs(i - 1) % q, FMul(q, src_coeffs[i], data[i]))])

\* The caller runs the kernel it was given on the preprocessed source
\* coefficients and the data of the displacement.
RunLoopyKernel ==
    /\ pc = "kernel"
    /\ data_assertion(tgt_expansion, src_expansion)
    /\ derivatives' = translation_classes_dependent_data(
            m2l_translation, tgt_expansion, src_expansion, src_rscale, dvec,
            kernel)
    /\ preprocessed_exprs' = preprocess_multipole_exprs(
            m2l_translation, tgt_expansion, src_expansion, src_coeff_exprs,
            src_rscale)
    /\ \E nested \in BOOLEAN :
            m2l_result' = e2e(m2l_translation, tgt_expansion, src_expansion,
                              preprocessed_exprs', derivatives', nested)
    /\ pc' = "kernel_ran"
    /\ UNCHANGED <<tgt_expansion, src_expansion, src_coeff_exprs, src_rscale,
                   dvec, tgt_rscale, returned, m2l_translation, kernel,
                   local_exprs, precomputed_data>>
    /\ UNCHANGED m2m_only
    /\ UNCHANGED cache_vars

\* The direct translate methods use the data they are given: the Cartesian
\* one when it is truthy, the cylindrical one when it is not None. No data
\* vector is empty.
data_is_given(cls, given) == ~use_preprocessing(cls) /\ given # <<>>

\* The derivatives a direct translate computes with, used back to front
\* when they were given.
translate_derivatives_Reversed(cls, given, tgt, src, srs, dv, k) ==
    IF data_is_given(cls, given)
    THEN List(Reversed(given))
    ELSE translation_classes_dependent_data(cls, tgt, src, srs, dv, k)

\* The derivatives a direct translate computes with.
translate_derivatives(cls, given, tgt, src, srs, dv, k) ==
    IF data_is_given(cls, given)
    THEN given
    ELSE translation_classes_dependent_data(cls, tgt, src, srs, dv, k)

\* translation_classes_dependent_data: called by translate itself when it
\* was given no data, or by the caller once for a displacement when
\* use_preprocessing is set.
TranslationClassesDependentData ==
    /\ pc = "call"
    /\ IF /\ m2l_translation \in VolumeTaylorClasses
          /\ ~data_is_given(m2l_translation, precomputed_data)
          /\ ~data_assertion(tgt_expansion, src_expansion)
       THEN /\ pc' = "AssertionError"
            /\ derivatives' = derivatives
       ELSE /\ pc' = "data"
            /\ derivatives' = translate_derivatives(
                    m2l_translation, precomputed_data, tgt_expansion,
                    src_expansion, src_rscale, dvec, kernel)
    /\ UNCHANGED <<tgt_expansion, src_expansion, src_coeff_exprs, src_rscale,
                   dvec, tgt_rscale, returned, m2l_translation, kernel,
                   preprocessed_exprs, m2l_result, local_exprs,
                   precomputed_data>>
    /\ UNCHANGED m2m_only
    /\ UNCHANGED cache_vars

\* The cylindrical preprocess_multipole_exprs scaling the list it was given.
preprocess_multipole_exprs_argument_Scaled(cls, tgt, src, coeffs, srs) ==
    IF cls \in BesselClassNames
    THEN FourierBessel_preprocess_multipole_exprs(tgt, src, coeffs, srs)
    ELSE coeffs

\* What the list passed to preprocess_multipole_exprs as src_coeff_exprs
\* holds when the method has returned: the Cartesian methods read it into a
\* new input_vector, the cylindrical one scales a copy of it.
preprocess_multipole_exprs_argument(cls, tgt, src, coeffs, srs) == coeffs

\* preprocess_multipole_exprs: called by translate itself, or by the caller
\* once for a source box.
PreprocessMultipoleExprs ==
    /\ pc = "data"
    /\ preprocessed_exprs' = preprocess_multipole_exprs(
            m2l_translation, tgt_expansion, src_expansion, src_coeff_exprs,
            src_rscale)
    /\ src_coeff_exprs' = preprocess_multipole_exprs_argument(
            m2l_translation, tgt_expansion, src_expansion, src_coeff_exprs,
            src_rscale)
    /\ pc' = "preprocessed"
    /\ UNCHANGED <<tgt_expansion, src_expansion, src_rscale,
                   dvec, tgt_rscale, returned, m2l_translation, kernel,
                   derivatives, m2l_result, local_exprs, precomputed_data>>
    /\ UNCHANGED m2m_only
    /\ UNCHANGED cache_vars

\* The product: all there is to translate when use_preprocessing is set, and
\* then what translate returns.
Translate ==
    /\ pc = "preprocessed"
    /\ IF ~translate_assertions(m2l_translation, preprocessed_exprs,
                                derivatives)
       THEN /\ pc' = "AssertionError"
            /\ UNCHANGED <<m2l_result, returned>>
       ELSE /\ pc' = "translated"
            /\ m2l_result' = translate_product(
                    m2l_translation, tgt_expansion, src_expansion,
                    preprocessed_exprs, derivatives)
            /\ returned' = IF use_preprocessing(m2l_translation)
                           THEN m2l_result' ELSE returned
    /\ UNCHANGED <<tgt_expansion, src_expansion, src_coeff_exprs, src_rscale,
                   dvec, tgt_rscale, m2l_translation, kernel, derivatives,
                   preprocessed_exprs, local_exprs, precomputed_data>>
    /\ UNCHANGED m2m_only
    /\ UNCHANGED cache_vars

\* translate of a class with use_preprocessing called with preprocessed
\* source coefficients and translation_classes_dependent_data=None: the
\* assertion on the data comes first; past the assertions None would be
\* indexed or zipped, which raises TypeError.
TranslateWithoutData ==
    /\ pc = "call"
    /\ use_preprocessing(m2l_translation)
    /\ preprocessed_exprs' = preprocess_multipole_exprs(
            m2l_translation, tgt_expansion, src_expansion, src_coeff_exprs,
            src_rscale)
    /\ pc' = IF ~translate_assertions(m2l_translation, preprocessed_exprs',
                                      <<>>)
             THEN "AssertionError"
             ELSE "TypeError"
    /\ UNCHANGED <<tgt_expansion, src_expansion, src_coeff_exprs, src_rscale,
                   dvec, tgt_rscale, returned, m2l_translation, kernel,
                   derivatives, m2l_result, local_exprs, precomputed_data>>
    /\ UNCHANGED m2m_only
    /\ UNCHANGED cache_vars

\* postprocess_local_exprs: called by translate itself, which returns its
\* result, or by the caller once for a target box.
PostprocessLocalExprs ==
    /\ pc = "translated"
    /\ local_exprs' = postprocess_local_exprs(
            m2l_translation, tgt_expansion, src_expansion, m2l_result,
            src_rscale, tgt_rscale)
    /\ returned' = IF use_preprocessing(m2l_translation)
                   THEN returned ELSE local_exprs'
    /\ pc' = "done"
    /\ UNCHANGED <<tgt_expansion, src_expansion, src_coeff_exprs, src_rscale,
                   dvec, tgt_rscale, m2l_translation, kernel, derivatives,
                   preprocessed_exprs, m2l_result, precomputed_data>>
    /\ UNCHANGED m2m_only
    /\ UNCHANGED cache_vars

\* ------------------------------------------------- M2L: the calls

\* Source coefficient vectors of length n: the zero vector, the unit
\* vectors and one dense vector.
M2LCoeffVectors(n) ==
    {[i \in 1..n |-> IF i = j THEN 1 ELSE 0] : j \in 0..n}
    \cup {[i \in 1..n |-> i * i + i + 1]}

\* The displacements between the centers of two boxes of an interaction
\* list: no component is zero.
M2LDisplacements(dim) == [1..dim -> DistValues \ {0}]

\* The orders of the expansions a translation class is used with.
OrdersOf(cls) == IF cls \in BesselClassNames THEN BesselOrders ELSE Orders

InitM2L ==
    \E cls \in M2LClassNames, dim \in Dims, rc \in RscaleCases :
    \E ps \in OrdersOf(cls), pt \in OrdersOf(cls) :
        /\ cls \in BesselClassNames => dim = 2
        /\ m2l_translation = cls
        /\ LET family == IF cls \in BesselClassNames
                         THEN "bessel" ELSE "full"
           IN  /\ src_expansion = Expansion(dim, ps, family, rc[1])
               /\ tgt_expansion = Expansion(dim, pt, family, rc[1])
        /\ kernel \in Kernels
        /\ src_coeff_exprs \in
                M2LCoeffVectors(Len(get_coefficient_identifiers(src_expansion)))
        /\ dvec \in M2LDisplacements(dim)
        /\ src_rscale = rc[2]
        /\ tgt_rscale = rc[3]
        /\ pc = "init"
        /\ derivatives = <<>>
        /\ preprocessed_exprs = <<>>
        /\ m2l_result = <<>>
        /\ local_exprs = <<>>
        /\ precomputed_data = <<>>
        /\ cache = EmptyCache
        /\ callers = IdleCallers
        /\ returned = <<>>
        /\ fast_version = TRUE
        /\ axis = 0
        /\ result = <<>>
        /\ written = <<>>
        /\ leg = 1
        /\ first_coeffs = <<>>

\* Source coefficient vectors of length n of a second source box: a dense
\* vector and the last unit vector.
OtherBoxCoeffVectors(n) ==
    {[i \in 1..n |-> i], [i \in 1..n |-> IF i = n THEN 1 ELSE 0]}

\* The caller of a direct translate goes on to another pair of boxes of the
\* same translation class: the same expansions, displacement and source
\* rscale, other source coefficients and another target rscale, and the
\* data vector of the call before as translation_classes_dependent_data.
NextBoxPair ==
    /\ pc = "done"
    /\ ~use_preprocessing(m2l_translation)
    /\ precomputed_data = <<>>
    /\ precomputed_data' = derivatives
    /\ src_coeff_exprs' \in OtherBoxCoeffVectors(Len(src_coeff_exprs))
    /\ tgt_rscale' \in {1, MaxRscale + 1} \ {tgt_rscale}
    /\ pc' = "call"
    /\ derivatives' = <<>>
    /\ preprocessed_exprs' = <<>>
    /\ m2l_result' = <<>>
    /\ local_exprs' = <<>>
    /\ returned' = <<>>
    /\ UNCHANGED <<tgt_expansion, src_expansion, src_rscale, dvec,
                   m2l_translation, kernel>>
    /\ UNCHANGED m2m_only
    /\ UNCHANGED cache_vars

NextM2L ==
    \/ Construct
    \/ LoopyTranslate
    \/ RunLoopyKernel
    \/ TranslationClassesDependentData
    \/ PreprocessMultipoleExprs
    \/ Translate
    \/ TranslateWithoutData
    \/ PostprocessLocalExprs
    \/ NextBoxPair

SpecM2L == InitM2L /\ [][NextM2L]_vars

\* The methods of FourierBesselM2LWithFFT on an instance made without its
\* __init__ (by a subclass with an __init__ of its own, or by __new__).
InitBesselFFT ==
    \E rc \in RscaleCases, ps \in BesselOrders, pt \in BesselOrders :
        /\ m2l_translation = "FourierBesselM2LWithFFT"
        /\ src_expansion = Expansion(2, ps, "bessel", rc[1])
        /\ tgt_expansion = Expansion(2, pt, "bessel", rc[1])
        /\ kernel \in Kernels
        /\ src_coeff_exprs \in M2LCoeffVectors(2 * ps + 1)
        /\ dvec \in M2LDisplacements(2)
        /\ src_rscale = rc[2]
        /\ tgt_rscale = rc[3]
        /\ pc = "call"
        /\ derivatives = <<>>
        /\ preprocessed_exprs = <<>>
        /\ m2l_result = <<>>
        /\ local_exprs = <<>>
        /\ precomputed_data = <<>>
        /\ cache = EmptyCache
        /\ callers = IdleCallers
        /\ returned = <<>>
        /\ fast_version = TRUE
        /\ axis = 0
        /\ result = <<>>
        /\ written = <<>>
        /\ leg = 1
        /\ first_coeffs = <<>>

NextBesselFFT ==
    \/ LoopyTranslate
    \/ TranslationClassesDependentData
    \/ PreprocessMultipoleExprs
    \/ Translate
    \/ TranslateWithoutData
    \/ PostprocessLocalExprs

SpecBesselFFT == InitBesselFFT /\ [][NextBesselFFT]_vars

\* ------------------------------------- the memoization cache: its use

\* The value a key stands for: the stored identifiers of an expansion, its
\* hyperplane decomposition, or the index sets of the circulant layout of a
\* source and target order.
cache_compute(k) ==
    IF k[1] = "identifiers"
    THEN get_coefficient_identifiers(Expansion(k[3], k[4][1], k[2], TRUE))
    ELSE IF k[1] = "hyperplanes"
    THEN split_coeffs_into_hyperplanes(Expansion(k[3], k[4][1], k[2], TRUE))
    ELSE translation_classes_dependent_data_mis(
            Expansion(k[3], k[4][2], k[2], TRUE),
            Expansion(k[3], k[4][1], k[2], TRUE))

\* An insert that leaves the entry marked present before its value is
\* there.
cache_store_Partial(c, k, v) == [c EXCEPT ![k] = [hit |-> TRUE, value |-> <<>>]]

\* The insert of the cache container: the entry appears with its value in
\* one step.
cache_store(c, k, v) == [c EXCEPT ![k] = [hit |-> TRUE, value |-> v]]

\* A caller asks for a key: a hit returns the entry, a miss goes on to
\* compute.
CacheLookup(p) ==
    /\ callers[p].pc = "idle"
    /\ \E k \in CacheKeys :
        callers' = [callers EXCEPT ![p] =
            IF cache[k].hit
            THEN [pc |-> "returned", key |-> k, value |-> cache[k].value]
            ELSE [pc |-> "miss", key |-> k, value |-> <<>>]]
    /\ UNCHANGED cache
    /\ UNCHANGED <<m2m_vars, m2l_only>>

\* After a miss the caller computes the value, whatever the cache holds by
\* now.
CacheCompute(p) ==
    /\ callers[p].pc = "miss"
    /\ callers' = [callers EXCEPT ![p].pc = "computed",
                                  ![p].value = cache_compute(callers[p].key)]
    /\ UNCHANGED cache
    /\ UNCHANGED <<m2m_vars, m2l_only>>

\* The caller inserts what it computed and returns it.
CacheInsert(p) ==
    /\ callers[p].pc = "computed"
    /\ cache' = cache_store(cache, callers[p].key, callers[p].value)
    /\ callers' = [callers EXCEPT ![p].pc = "returned"]
    /\ UNCHANGED <<m2m_vars, m2l_only>>

\* The caller is done with the value.
CacheRelease(p) ==
    /\ callers[p].pc = "returned"
    /\ callers' = [callers EXCEPT ![p] = IdleCaller]
    /\ UNCHANGED cache
    /\ UNCHANGED <<m2m_vars, m2l_only>>

\* No translation runs while the cache is exercised.
InitCache ==
    /\ cache = EmptyCache
    /\ callers = IdleCallers
    /\ src_expansion = Expansion(1, 0, "full", TRUE)
    /\ tgt_expansion = Expansion(1, 0, "full", TRUE)
    /\ src_coeff_exprs = <<>>
    /\ dvec = <<>>
    /\ src_rscale = 1
    /\ tgt_rscale = 1
    /\ fast_version = TRUE
    /\ pc = "idle"
    /\ axis = 0
    /\ result = <<>>
    /\ written = <<>>
    /\ returned = <<>>
    /\ leg = 1
    /\ first_coeffs = <<>>
    /\ m2l_translation = "none"
    /\ kernel = 0
    /\ derivatives = <<>>
    /\ preprocessed_exprs = <<>>
    /\ m2l_result = <<>>
    /\ local_exprs = <<>>
    /\ precomputed_data = <<>>

NextCache ==
    \/ \E p \in Callers : CacheLookup(p)
    \/ \E p \in Callers : CacheCompute(p)
    \/ \E p \in Callers : CacheInsert(p)
    \/ \E p \in Callers : CacheRelease(p)

SpecCache == InitCache /\ [][NextCache]_vars

\* -------------------------------------------------------- M2M: claims

AfterAxisLoop == pc = "axis" /\ axis = tgt_expansion.dim

RECURSIVE RProdSeq(_)
RProdSeq(s) ==
    IF s = <<>> THEN RInt(1) ELSE RMul(Head(s), RProdSeq(Tail(s)))

MiLeq(s, t) == \A k \in DOMAIN t : s[k] <= t[k]

\* The term of stored source s in the direct sum for target t, with the
\* rscales translate_from computes with (1 when use_rscale is off).
DirectSumTerm(s, t) ==
    LET srs == m2m_rscale(tgt_expansion, src_rscale)
        trs == m2m_rscale(tgt_expansion, tgt_rscale)
        src_ids == get_coefficient_identifiers(src_expansion)
    IN  RMul(RMul(src_coeff_exprs[IndexOf(src_ids, s)],
                  RPow(Rat(srs, trs), SumSeq(s))),
             RProdSeq([k \in DOMAIN t |->
                RDiv(RPow(Rat(dvec[k], trs), t[k] - s[k]),
                     RInt(factorial(t[k] - s[k])))]))

DirectSum(t) ==
    LET below == SelectSeq(get_coefficient_identifiers(src_expansion),
                           LAMBDA s : MiLeq(s, t))
    IN  RSumSeq([j \in 1..Len(below) |-> DirectSumTerm(below[j], t)])

\* C4: when the axis loop of translate_from ends, before the projection to
\* stored form, the entry of every full target multi-index t is the sum over
\* the stored source multi-indices s <= t of
\* C[s] * (src_rscale/tgt_rscale)^|s| * prod_k (dvec_k/tgt_rscale)^(t_k-s_k)
\* / (t_k-s_k)!, sources with some s_k > t_k adding nothing, and no
\* "assert n >= k" of the loop fails.
C4_AxisSweepIsDirectSum ==
    /\ pc # "AssertionError"
    /\ AfterAxisLoop =>
          LET full == get_full_coefficient_identifiers(tgt_expansion)
          IN  /\ Len(result) = Len(full)
              /\ \A i \in 1..Len(full) : result[i] = DirectSum(full[i])

\* A compressed source of order 2 in two dimensions whose coefficient at
\* (2,0) is not zero, translated by a displacement without zero component:
\* the target entry (1,1) is not zero and (2,0) is no source of it.
C4_Witness ==
    /\ AfterAxisLoop
    /\ tgt_expansion.dim = 2
    /\ src_expansion.family = "pde"
    /\ src_expansion.order = 2
    /\ tgt_expansion.order = 2
    /\ \A k \in DOMAIN dvec : dvec[k] # 0
    /\ src_coeff_exprs[IndexOf(get_coefficient_identifiers(src_expansion),
                               <<2, 0>>)] # RZero
    /\ result[IndexOf(get_full_coefficient_identifiers(tgt_expansion),
                      <<1, 1>>)] # RZero

\* C5: translate_from returns with _fast_version=False (the brute-force
\* double sum) what the axis loop computed, the value it returns with
\* _fast_version=True.
C5_ReferenceEqualsFast ==
    [][(pc = "axis" /\ pc' = "done") =>
          returned' = get_stored_mpole_coefficients_from_full(tgt_expansion,
                        result, m2m_rscale(tgt_expansion, tgt_rscale))]_vars

\* The reference code has returned a result that is not zero, for a source
\* of order 2 and a target of order 1 in two dimensions.
C5_Witness ==
    /\ pc = "done"
    /\ ~fast_version
    /\ tgt_expansion.dim = 2
    /\ src_expansion.order = 2
    /\ tgt_expansion.order = 1
    /\ \E i \in DOMAIN result : result[i] \notin {RZero, RInt(1)}

\* C6: translating stored coefficients by dvec into an expansion of order
\* at least the source's and the result back by -dvec into the source
\* expansion returns the coefficients the round trip began with.
C6_RoundTrip ==
    (pc = "done" /\ leg = 2 /\ src_expansion.order >= tgt_expansion.order)
        => returned = first_coeffs

\* A round trip in two dimensions from order 1 through order 2 and back,
\* with rscales that differ and a displacement that is not zero.
C6_Witness ==
    /\ pc = "done"
    /\ leg = 2
    /\ tgt_expansion.dim = 2
    /\ src_expansion.order = 2
    /\ tgt_expansion.order = 1
    /\ tgt_expansion.use_rscale
    /\ src_rscale # tgt_rscale
    /\ \A k \in DOMAIN dvec : dvec[k] # 0
    /\ \E i \in DOMAIN first_coeffs : first_coeffs[i] # RZero
    /\ src_coeff_exprs # first_coeffs

\* How often the index gymnastics wrote the coefficient of multi-index s
\* into cur_dim_input_coeffs, over all axes.
WriteCount(s) ==
    Cardinality({ak \in UNION {{<<a, k>> : k \in DOMAIN written[a]} :
                                a \in DOMAIN written} :
                    written[ak[1]][ak[2]] = s})

\* C7 as stated: over the whole axis loop every stored source multi-index
\* is written into the input buffer of exactly one axis.
C7_EverySourceWrittenOnce ==
    AfterAxisLoop =>
        \A s \in Range(get_coefficient_identifiers(src_expansion)) :
            WriteCount(s) = 1

\* C7 as amended: over the whole axis loop every stored source multi-index
\* of degree at most the target order is written into the input buffer of
\* exactly one axis, and one of higher degree into none (it is discarded).
C7_SourceWrittenOnceUpToTargetOrder ==
    AfterAxisLoop =>
        \A s \in Range(get_coefficient_identifiers(src_expansion)) :
            WriteCount(s) = IF SumSeq(s) <= tgt_expansion.order THEN 1 ELSE 0

\* The compressed expansion in two dimensions, whose hyperplanes lie along
\* both axes: both axes took source coefficients.
C7_Witness ==
    /\ AfterAxisLoop
    /\ tgt_expansion.family = "pde"
    /\ tgt_expansion.order = 2
    /\ src_expansion.order = 2
    /\ \A a \in DOMAIN written : written[a] # <<>>

TgtIds == get_coefficient_identifiers(tgt_expansion)
SrcIds == get_coefficient_identifiers(src_expansion)
CircMis == circulant_matrix_mis(tgt_expansion, src_expansion)
NeededMis == needed_vector_terms(tgt_expansion, src_expansion)

\* C1: for a Cartesian Taylor pair the target coefficients at the end of
\* the four stages (data, preprocessing, product, postprocessing), run with
\* the precomputed-multipole strategy or with the FFT strategy, are the
\* coefficients that the direct strategy's translate gives for the same
\* expansions, coefficients, displacement, rscales and kernel.
C1_StrategiesAgree ==
    (pc = "done" /\ m2l_translation \in VolumeTaylorClasses) =>
        local_exprs = VolumeTaylor_translate(
                        tgt_expansion, src_expansion, src_coeff_exprs,
                        src_rscale, dvec, tgt_rscale, kernel)

\* The FFT strategy has finished on a two-dimensional pair whose circulant
\* space has dummy rows, with more than one non-zero source coefficient and
\* a non-zero last target coefficient.
C1_Witness ==
    /\ pc = "done"
    /\ m2l_translation = "VolumeTaylorM2LWithFFT"
    /\ tgt_expansion.dim = 2
    /\ src_expansion.order = 2
    /\ tgt_expansion.order = 1
    /\ Len(CircMis) > Cardinality(NeededMis)
    /\ \A i \in DOMAIN src_coeff_exprs : src_coeff_exprs[i] # 0
    /\ local_exprs[Len(local_exprs)] # 0
    /\ src_rscale # tgt_rscale

\* C2: for each strategy, the three counters are the lengths of the vectors
\* of the stages: translation_classes_dependent_ndata of the data,
\* preprocess_multipole_nexprs of the preprocessed source vector, and
\* postprocess_local_nexprs of the vector handed to postprocess_local_exprs.
C2_CountsEqualLengths ==
    /\ pc \in {"data", "preprocessed", "translated", "done"} =>
            Len(derivatives) = translation_classes_dependent_ndata(
                    m2l_translation, tgt_expansion, src_expansion)
    /\ pc \in {"preprocessed", "translated", "done"} =>
            Len(preprocessed_exprs) = preprocess_multipole_nexprs(
                    m2l_translation, tgt_expansion, src_expansion)
    /\ pc \in {"translated", "done"} =>
            Len(m2l_result) = postprocess_local_nexprs(
                    m2l_translation, tgt_expansion, src_expansion)

\* All stages of a cylindrical strategy have run on a pair for which the
\* three counters are three different numbers.
C2_Witness ==
    /\ pc = "done"
    /\ m2l_translation = "FourierBesselM2LWithPreprocessedMultipoles"
    /\ src_expansion.order = 2
    /\ tgt_expansion.order = 1
    /\ Len(derivatives) > Len(preprocessed_exprs)
    /\ Len(preprocessed_exprs) > Len(m2l_result)

\* C3 as stated: what translate returned has one entry per stored target
\* identifier, for every strategy.
C3_TranslateReturnsStoredLength ==
    pc = "done" => Len(returned) = Len(TgtIds)

\* C3: the direct Cartesian strategy and the two cylindrical strategies
\* return one entry per stored target identifier from translate; the
\* Cartesian precomputed-multipole and FFT strategies return one entry per
\* slot of the circulant space, and postprocess_local_exprs reduces that
\* vector to one entry per stored target identifier.
C3_TranslateLengthByStrategy ==
    pc = "done" =>
        /\ Len(local_exprs) = Len(TgtIds)
        /\ Len(returned) =
                IF m2l_translation \in
                        {"VolumeTaylorM2LWithPreprocessedMultipoles",
                         "VolumeTaylorM2LWithFFT"}
                THEN Len(CircMis)
                ELSE Len(TgtIds)

\* translate of the precomputed-multipole strategy has returned more entries
\* than the target stores.
C3_Witness ==
    /\ pc = "done"
    /\ m2l_translation = "VolumeTaylorM2LWithPreprocessedMultipoles"
    /\ src_expansion.order = 1
    /\ tgt_expansion.order = 2
    /\ Len(returned) > Len(TgtIds)
    /\ Len(local_exprs) = Len(TgtIds)

\* The circulant space of a pair is the set of multi-indices with component
\* k in 0..max_mi[k], each in one slot; it has at least as many slots as
\* there are distinct sums of a stored source and a stored target
\* identifier, every such sum is in it, and two sums in the same slot are
\* the same sum.
PaddingValid(tgt, src) ==
    LET mis == translation_classes_dependent_data_mis(tgt, src)
        circ == mis.circulant_matrix_mis
        src_ids == get_coefficient_identifiers(src)
        tgt_ids == get_coefficient_identifiers(tgt)
        box == {mi \in [1..tgt.dim -> 0..(tgt.order + src.order)] :
                    \A i \in DOMAIN mi : mi[i] <= mis.max_mi[i]}
        sums == {add_mi(src_ids[a], tgt_ids[b]) :
                    a \in DOMAIN src_ids, b \in DOMAIN tgt_ids}
    IN  /\ Range(circ) = box
        /\ Len(circ) = Cardinality(box)
        /\ Len(circ) >= Cardinality(sums)
        /\ mis.needed_vector_terms = sums
        /\ sums \subseteq Range(circ)
        /\ \A a \in sums, b \in sums :
                circulant_matrix_ident_to_index(tgt, src, a)
                = circulant_matrix_ident_to_index(tgt, src, b) => a = b

\* The numbering, and so its validity, depends on the dimension and the two
\* orders only.
PaddingValidTable ==
    [d \in Dims, ps \in Orders, pt \in Orders |->
        PaddingValid(Expansion(d, pt, "full", TRUE),
                     Expansion(d, ps, "full", TRUE))]

\* C9: for a Cartesian pair, before and after the data is built, the
\* circulant space is the set of multi-indices with component k in
\* 0..max_mi[k], each in one slot; it has at least as many slots as there
\* are distinct sums of a stored source and a stored target identifier,
\* every such sum is in it, and two sums in the same slot are the same sum.
C9_CirculantPaddingValid ==
    (pc \in {"call", "data"} /\ m2l_translation \in VolumeTaylorClasses) =>
        PaddingValidTable[tgt_expansion.dim, src_expansion.order,
                          tgt_expansion.order]

\* The data of a two-dimensional pair has been built in a circulant space
\* with more slots than needed sums.
C9_Witness ==
    /\ pc = "data"
    /\ m2l_translation \in VolumeTaylorClasses
    /\ tgt_expansion.dim = 2
    /\ src_expansion.order = 2
    /\ tgt_expansion.order = 1
    /\ Len(CircMis) > Cardinality(NeededMis)
    /\ Cardinality(NeededMis) > Len(SrcIds)

\* C10: the Cartesian data vector, as
\* translation_classes_dependent_data returns it, has one slot per multi-index of the
\* circulant space; the slot of mi holds the kernel derivative for mi (taken
\* with the source rscale, or with 1 when the target expansion does not use
\* rscale) when mi is the sum of a stored source and a stored target
\* identifier, and zero otherwise; each such sum has exactly one slot.
C10_DataVectorSlots ==
    (/\ pc = "data"
     /\ m2l_translation \in {"VolumeTaylorM2LTranslation",
                             "VolumeTaylorM2LWithPreprocessedMultipoles"}) =>
        LET sums == {add_mi(SrcIds[a], TgtIds[b]) :
                        a \in DOMAIN SrcIds, b \in DOMAIN TgtIds}
        IN  /\ Len(derivatives) = Len(CircMis)
            /\ \A p \in DOMAIN CircMis :
                    derivatives[p] =
                        IF CircMis[p] \in sums
                        THEN kernel_derivative(
                                Modulus(tgt_expansion, src_expansion), kernel,
                                CircMis[p], dvec,
                                IF tgt_expansion.use_rscale
                                THEN src_rscale ELSE 1)
                        ELSE 0
            /\ \A mi \in sums :
                    Cardinality({p \in DOMAIN CircMis : CircMis[p] = mi}) = 1

\* The data vector of a two-dimensional pair has been built: a slot that no
\* sum reaches holds zero although the kernel derivative of its multi-index
\* is not zero, and the slots of the sums hold non-zero derivatives.
C10_Witness ==
    /\ pc = "data"
    /\ m2l_translation = "VolumeTaylorM2LWithPreprocessedMultipoles"
    /\ tgt_expansion.dim = 2
    /\ src_expansion.order = 1
    /\ tgt_expansion.order = 1
    /\ \E p \in DOMAIN CircMis :
            /\ CircMis[p] \notin NeededMis
            /\ derivatives[p] = 0
            /\ kernel_derivative(Modulus(tgt_expansion, src_expansion), kernel,
                                 CircMis[p], dvec, src_rscale) # 0
    /\ \A p \in DOMAIN CircMis :
            CircMis[p] \in NeededMis => derivatives[p] # 0

\* C11: what the direct Cartesian translate returns has one entry per stored
\* target identifier t (the dummy rows are dropped), and that entry is
\* (tgt_rscale/src_rscale)^degree(t) times the sum over the stored source
\* identifiers s of src_coeff[s] * D[s + t], D being the data vector.
C11_DirectTranslateFormula ==
    (pc = "done" /\ m2l_translation = "VolumeTaylorM2LTranslation") =>
        LET q == Modulus(tgt_expansion, src_expansion)
            ratio == FDiv(q, tgt_rscale, src_rscale)
            D(mi) == derivatives[IndexOf(CircMis, mi)]
        IN  /\ Len(returned) = Len(TgtIds)
            /\ \A j \in DOMAIN TgtIds :
                    returned[j] =
                        FMul(q, FPow(q, ratio, SumSeq(TgtIds[j])),
                             FSumTo(q, List([i \in DOMAIN SrcIds |->
                                        FMul(q, src_coeff_exprs[i],
                                             D(add_mi(SrcIds[i], TgtIds[j])))]),
                                    Len(SrcIds)))

\* The direct translate has returned on a two-dimensional pair with dummy
\* rows, unequal rscales and no zero source coefficient, and its last entry
\* is not zero.
C11_Witness ==
    /\ pc = "done"
    /\ m2l_translation = "VolumeTaylorM2LTranslation"
    /\ tgt_expansion.dim = 2
    /\ src_expansion.order = 2
    /\ tgt_expansion.order = 2
    /\ Len(m2l_result) > Len(returned)
    /\ tgt_rscale # src_rscale
    /\ \A i \in DOMAIN src_coeff_exprs : src_coeff_exprs[i] # 0
    /\ returned[Len(returned)] # 0

\* The output of the direct engine for the arguments of the state.
DirectOutput ==
    VolumeTaylor_translate(tgt_expansion, src_expansion, src_coeff_exprs,
                           src_rscale, dvec, tgt_rscale, kernel)

\* C12 as stated: the FFT engine reverses the precomputed vector, pads it
\* with zeros to 2n-1 entries and transforms it, n being the number of slots
\* of the circulant space, and its output is the output of the direct engine.
C12_MirrorPadTo2nMinus1 ==
    (pc = "done" /\ m2l_translation = "VolumeTaylorM2LWithFFT") =>
        /\ Len(derivatives) = 2 * Len(CircMis) - 1
        /\ local_exprs = DirectOutput

\* C12: the FFT engine reverses the precomputed vector and transforms it
\* without padding it, so the transformed data, the transformed source
\* vector and their pointwise product have the n entries of the circulant
\* space; inverse-transforming the product, reversing its first n entries
\* and extracting and rescaling the target rows gives the output of the
\* direct engine.
C12_MirrorRecipeOfLengthN ==
    (pc = "done" /\ m2l_translation = "VolumeTaylorM2LWithFFT") =>
        LET q == Modulus(tgt_expansion, src_expansion)
            n == Len(CircMis)
            D == VolumeTaylor_translation_classes_dependent_data(
                    tgt_expansion, src_expansion, src_rscale, dvec, kernel)
        IN  /\ Len(D) = n
            /\ derivatives = fft(q, Reversed(D))
            /\ Len(derivatives) = n
            /\ Len(preprocessed_exprs) = n
            /\ m2l_result = [i \in 1..n |->
                                FMul(q, derivatives[i], preprocessed_exprs[i])]
            /\ local_exprs = VolumeTaylor_postprocess_local_exprs(
                    tgt_expansion, src_expansion,
                    List(Reversed(SubSeq(ifft(q, m2l_result), 1, n))),
                    src_rscale, tgt_rscale)
            /\ local_exprs = DirectOutput

\* The FFT engine has finished on a two-dimensional pair: the transformed
\* data has n > 1 entries, fewer than 2n-1, and the output is not zero.
C12_Witness ==
    /\ pc = "done"
    /\ m2l_translation = "VolumeTaylorM2LWithFFT"
    /\ tgt_expansion.dim = 2
    /\ src_expansion.order = 1
    /\ tgt_expansion.order = 2
    /\ Len(derivatives) = Len(CircMis)
    /\ Len(derivatives) < 2 * Len(CircMis) - 1
    /\ \E i \in DOMAIN local_exprs : local_exprs[i] # 0

\* C13: for cylindrical expansions of orders p_s and p_t the data has
\* 2 p_s + 2 p_t + 1 entries, the entry at position k + p_s + p_t (from 0) is
\* the Hankel term of index k for every k in -(p_s + p_t)..(p_s + p_t), none
\* is left at the zero placeholder, and translate returns 2 p_t + 1 entries.
C13_CylindricalDataLayout ==
    m2l_translation \in FourierBesselClasses =>
        LET ps == src_expansion.order
            pt == tgt_expansion.order
            q == Modulus(tgt_expansion, src_expansion)
        IN  /\ pc \in {"data", "preprocessed", "translated", "done"} =>
                /\ Len(derivatives) = 2 * ps + 2 * pt + 1
                /\ \A k \in (0 - (ps + pt))..(ps + pt) :
                        /\ derivatives[k + ps + pt + 1]
                                = hankel_term(q, kernel, k, dvec)
                        /\ derivatives[k + ps + pt + 1] # 0
            /\ pc = "done" => Len(returned) = 2 * pt + 1

\* The direct cylindrical translate has returned for orders 3 and 3: 13
\* entries of data, 7 entries returned.
C13_Witness ==
    /\ pc = "done"
    /\ m2l_translation = "FourierBesselM2LTranslation"
    /\ src_expansion.order = 3
    /\ tgt_expansion.order = 3
    /\ Len(derivatives) = 13
    /\ Len(returned) = 7

\* tgt_rscale^|j| * (-1)^j * sum over m in -p_s..p_s of
\* data[m + j] * src_coeff[m] * src_rscale^|m|
CylindricalSum(j) ==
    LET ps == src_expansion.order
        pt == tgt_expansion.order
        q == Modulus(tgt_expansion, src_expansion)
        term(m) == FMul(q, FMul(q, derivatives[m + j + ps + pt + 1],
                                src_coeff_exprs[m + ps + 1]),
                        FPow(q, src_rscale, Abs(m)))
        total == FSumTo(q, List([i \in 1..(2 * ps + 1) |-> term(i - 1 - ps)]),
                        2 * ps + 1)
        sign == IF j % 2 = 0 THEN 1 ELSE q - 1
    IN  FMul(q, FMul(q, FPow(q, tgt_rscale, Abs(j)), sign), total)

\* C14: the cylindrical direct translate returns, for every target index j
\* in -p_t..p_t, tgt_rscale^|j| * (-1)^j * sum over m of
\* data[m + j] * src_coeff[m] * src_rscale^|m|; preprocessing, the
\* precomputed translate and postprocessing, run in that order, end in the
\* same vector.
C14_CylindricalTranslateFormula ==
    (pc = "done" /\ m2l_translation \in FourierBesselClasses) =>
        LET pt == tgt_expansion.order
        IN  /\ Len(local_exprs) = 2 * pt + 1
            /\ \A j \in (0 - pt)..pt : local_exprs[j + pt + 1] = CylindricalSum(j)
            /\ m2l_translation = "FourierBesselM2LTranslation" =>
                    returned = local_exprs

\* The stages of the precomputed cylindrical strategy have run for orders
\* 2 and 3 with rscales that are neither equal nor 1, no zero source
\* coefficient, and a non-zero entry at the odd target index -3.
C14_Witness ==
    /\ pc = "done"
    /\ m2l_translation = "FourierBesselM2LWithPreprocessedMultipoles"
    /\ src_expansion.order = 2
    /\ tgt_expansion.order = 3
    /\ src_rscale > 1
    /\ tgt_rscale > src_rscale
    /\ \A i \in DOMAIN src_coeff_exprs : src_coeff_exprs[i] # 0
    /\ local_exprs[1] # 0
    /\ returned # local_exprs

\* C15: constructing FourierBesselM2LWithFFT always fails: where that class
\* was asked for, the construction is pending or has raised ValueError, and
\* none of its data, preprocessing, translate or postprocessing has produced
\* anything.
C15_CylindricalFFTDisabled ==
    m2l_translation = "FourierBesselM2LWithFFT" =>
        /\ pc \in {"init", "ValueError"}
        /\ derivatives = <<>>
        /\ preprocessed_exprs = <<>>
        /\ m2l_result = <<>>
        /\ local_exprs = <<>>
        /\ returned = <<>>

\* The construction of FourierBesselM2LWithFFT has raised.
C15_Witness ==
    /\ pc = "ValueError"
    /\ m2l_translation = "FourierBesselM2LWithFFT"
    /\ src_expansion.order = 1
    /\ tgt_expansion.order = 1

\* The classes without a loopy_translate that builds a kernel.
NoLoopyKernelClasses ==
    {"VolumeTaylorM2LTranslation", "FourierBesselM2LTranslation",
     "FourierBesselM2LWithFFT"}

\* C17: loopy_translate of the direct Cartesian, the direct cylindrical and
\* the cylindrical FFT strategy raises NotImplementedError, and a request to
\* one of them never ends with a kernel or with another error.
C17_LoopyTranslateNotImplemented ==
    /\ \A cls \in NoLoopyKernelClasses :
            loopy_translate(cls) = "NotImplementedError"
    /\ m2l_translation \in NoLoopyKernelClasses =>
            pc \notin {"kernel", "TypeError"}

\* loopy_translate of the direct cylindrical strategy has raised.
C17_Witness ==
    /\ pc = "NotImplementedError"
    /\ m2l_translation = "FourierBesselM2LTranslation"
    /\ tgt_expansion.order = 2

\* ---------------------------------------------------------------- C16

Mismatched ==
    \/ src_expansion.family # tgt_expansion.family
    \/ src_expansion.dim # tgt_expansion.dim

\* C16: once translate_from has been entered with a source expansion whose
\* kernel family or dimension differs from the target's, the call has
\* failed with an error and no coefficients were produced.
C16_MismatchRaises ==
    (pc # "call" /\ Mismatched) => (pc = "RuntimeError" /\ returned = <<>>)

\* C16, what the code does: a source of another class is rejected with
\* RuntimeError and no coefficients; a source of the same class and another
\* dimension is accepted, and the call returns one zero per target
\* coefficient.
C16_ClassMismatchRaisesDimMismatchZeros ==
    /\ (pc # "call" /\ src_expansion.family # tgt_expansion.family)
            => (pc = "RuntimeError" /\ returned = <<>>)
    /\ (pc = "done" /\ src_expansion.family = tgt_expansion.family
            /\ src_expansion.dim # tgt_expansion.dim)
            => returned = [i \in 1..Len(get_coefficient_identifiers(
                                            tgt_expansion)) |-> RZero]

C16_Witness ==
    /\ pc = "done"
    /\ src_expansion.family = tgt_expansion.family
    /\ src_expansion.dim # tgt_expansion.dim
    /\ \E i \in 1..Len(first_coeffs) : first_coeffs[i] # RZero
    /\ Len(returned) = Len(get_coefficient_identifiers(tgt_expansion))
\* ---------------------------------------------------------------- C19

\* What a second translate_from call with the same arguments returns on the
\* reference path, the argument list being in the state the first call
\* left it in.
ReferenceCalledAgain ==
    LET srs == m2m_rscale(tgt_expansion, src_rscale)
        trs == m2m_rscale(tgt_expansion, tgt_rscale)
    IN  get_stored_mpole_coefficients_from_full(tgt_expansion,
            reference_result(tgt_expansion, src_expansion, src_coeff_exprs,
                             srs, trs, dvec), trs)

\* C19: when translate_from has returned, on the axis-sweep path and on the
\* reference path, the caller's source coefficient vector is what it was
\* before the call, and the same call made again returns the same result.
C19_TranslateFromPure ==
    (pc = "done" /\ leg = 1) =>
        /\ src_coeff_exprs = first_coeffs
        /\ ~fast_version => ReferenceCalledAgain = returned

\* The reference path has returned and the caller's vector has changed.
C19_Witness ==
    /\ pc = "done"
    /\ leg = 1
    /\ ~fast_version
    /\ src_coeff_exprs # first_coeffs
    /\ ReferenceCalledAgain # returned
\* ---------------------------------------------------------------- C18

\* The data vector computed for the arguments of the state.
FreshData ==
    translation_classes_dependent_data(m2l_translation, tgt_expansion,
        src_expansion, src_rscale, dvec, kernel)

\* What a direct translate that computes its data itself returns for the
\* arguments of the state.
FreshDirectOutput ==
    postprocess_local_exprs(m2l_translation, tgt_expansion, src_expansion,
        translate_product(m2l_translation, tgt_expansion, src_expansion,
            preprocess_multipole_exprs(m2l_translation, tgt_expansion,
                src_expansion, src_coeff_exprs, src_rscale),
            FreshData),
        src_rscale, tgt_rscale)

\* C18: the data vector handed to a direct translate for a second pair of
\* boxes, with other source coefficients and another target rscale and the
\* same displacement, source rscale and expansions, is the data vector of
\* that pair; and the translate given that vector returns what it returns
\* when it computes the data itself.
C18_DataSharedAcrossBoxPairs ==
    (precomputed_data # <<>>) =>
        /\ precomputed_data = FreshData
        /\ pc \in {"data", "preprocessed", "translated", "done"} =>
                derivatives = FreshData
        /\ pc = "done" => returned = FreshDirectOutput

\* The cylindrical direct translate has returned for a second pair of boxes
\* with the data of the first, unequal rscales and orders above 0.
C18_Witness ==
    /\ pc = "done"
    /\ precomputed_data # <<>>
    /\ m2l_translation = "FourierBesselM2LTranslation"
    /\ src_expansion.order > 0
    /\ tgt_expansion.order > 0
    /\ src_rscale # tgt_rscale
    /\ \E i \in DOMAIN returned : returned[i] # 0
\* ---------------------------------------------------------------- C20

\* A step of a stage of the translation that leaves the vectors it was
\* passed as it found them.
StageLeavesArgumentsAlone ==
    (pc \in {"call", "data", "preprocessed", "translated"}) =>
        /\ src_coeff_exprs' = src_coeff_exprs
        /\ precomputed_data' = precomputed_data
        /\ (pc # "call") => (derivatives' = derivatives)

TranslateOnKernelInput ==
    translate_product(m2l_translation, tgt_expansion, src_expansion,
                      preprocessed_exprs, derivatives)

\* C22: loopy_translate of each strategy with precomputed data builds a
\* kernel, its loop over icoeff_tgt has postprocess_local_nexprs iterations,
\* and the kernel leaves in coeff[icoeff_tgt] what translate of the strategy
\* returns at that position.
C22_LoopyKernelEqualsTranslate ==
    /\ (use_preprocessing(m2l_translation)
            /\ pc \in {"kernel", "kernel_ran", "TypeError",
                       "NotImplementedError"})
            => pc \in {"kernel", "kernel_ran"}
    /\ pc = "kernel_ran" =>
            /\ Len(m2l_result) = postprocess_local_nexprs(
                    m2l_translation, tgt_expansion, src_expansion)
            /\ \A i \in DOMAIN m2l_result :
                    m2l_result[i] = TranslateOnKernelInput[i]

\* C22, what the code does: with FFT the kernel leaves the pointwise
\* product of translate in coeff; without FFT it leaves a multiple of the
\* pointwise product, not the Toeplitz sum; the cylindrical loopy_translate
\* ends in TypeError and builds no kernel.
C22_KernelIsPointwiseProduct ==
    /\ (m2l_translation = "FourierBesselM2LWithPreprocessedMultipoles"
            /\ pc \in {"kernel", "kernel_ran", "TypeError",
                       "NotImplementedError"})
            => pc = "TypeError"
    /\ pc = "kernel_ran" =>
            LET q == Modulus(tgt_expansion, src_expansion)
            IN  \A i \in DOMAIN m2l_result :
                    \E c \in {1, (Len(preprocessed_exprs) - (i - 1)) % q} :
                        m2l_result[i] =
                            FMul(q, c, FMul(q, preprocessed_exprs[i],
                                            derivatives[i]))
    /\ (pc = "kernel_ran" /\ m2l_translation = "VolumeTaylorM2LWithFFT") =>
            m2l_result = TranslateOnKernelInput

\* The kernel of the Cartesian strategy without FFT has run on orders 1 and
\* 2 in two dimensions and an entry of coeff is not the entry of the
\* Toeplitz product translate returns.
C22_Witness ==
    /\ pc = "kernel_ran"
    /\ m2l_translation = "VolumeTaylorM2LWithPreprocessedMultipoles"
    /\ tgt_expansion.dim = 2
    /\ \E i \in DOMAIN m2l_result : m2l_result[i] # TranslateOnKernelInput[i]
\* ---------------------------------------------------------------- C23

\* C23: in the methods of FourierBesselM2LWithFFT the data vector and the
\* preprocessed source vector have the lengths the inherited counters give,
\* and they have the same length, so that translate, given the data, does
\* not fail on its length assertion.
C23_BesselFFTLengthsAgree ==
    (m2l_translation = "FourierBesselM2LWithFFT") =>
        /\ pc \in {"data", "preprocessed"} =>
                Len(derivatives) = translation_classes_dependent_ndata(
                    m2l_translation, tgt_expansion, src_expansion)
        /\ pc = "preprocessed" =>
                /\ Len(preprocessed_exprs) = preprocess_multipole_nexprs(
                        m2l_translation, tgt_expansion, src_expansion)
                /\ Len(preprocessed_exprs) = Len(derivatives)
        /\ ~(pc = "AssertionError" /\ derivatives # <<>>)

\* C23, what the code does: the data vector has the 2 p_s + 2 p_t + 1
\* entries its counter gives, the preprocessed vector has 4 p_s + 1 entries
\* and its counter gives 2 p_s + 1, and translate, given the data, fails on
\* its length assertion exactly when the orders differ.
C23_BesselFFTLengths ==
    (m2l_translation = "FourierBesselM2LWithFFT") =>
        LET ps == src_expansion.order
            pt == tgt_expansion.order
        IN  /\ pc \in {"data", "preprocessed"} =>
                    Len(derivatives) = 2 * ps + 2 * pt + 1
            /\ pc = "preprocessed" => Len(preprocessed_exprs) = 4 * ps + 1
            /\ (pc = "AssertionError" /\ derivatives # <<>>) => ps # pt
            /\ pc \in {"translated", "done"} => ps = pt

\* translate has failed on its length assertion for source order 1 and
\* target order 2: 7 entries of data, 5 preprocessed entries.
C23_Witness ==
    /\ m2l_translation = "FourierBesselM2LWithFFT"
    /\ pc = "AssertionError"
    /\ src_expansion.order = 1
    /\ tgt_expansion.order = 2
    /\ Len(derivatives) = 7
    /\ Len(preprocessed_exprs) = 5
\* ---------------------------------------------------------------- C24

\* A step that is a call of translate without data: from "call", with the
\* preprocessed coefficients in hand and no data vector.
CalledWithoutData ==
    /\ pc = "call"
    /\ use_preprocessing(m2l_translation)
    /\ preprocessed_exprs' # <<>>
    /\ derivatives' = <<>>

\* Such a call ends in AssertionError and returns nothing.
WithoutDataAborts ==
    CalledWithoutData =>
        /\ pc' = "AssertionError"
        /\ returned' = <<>>
        /\ m2l_result' = <<>>

\* C24: translate of a strategy that takes precomputed data, called
\* without the data, ends in AssertionError and returns nothing; whenever
\* such a translate has returned a result, it was given a data vector.
C24_NoResultWithoutData ==
    /\ [][WithoutDataAborts]_vars
    /\ []((use_preprocessing(m2l_translation)
                /\ pc \in {"translated", "done"})
            => (derivatives # <<>> /\ returned # <<>>))

\* translate of the cylindrical strategy with precomputed data was called
\* without data and has ended in AssertionError with nothing returned.
C24_Witness ==
    /\ pc = "AssertionError"
    /\ m2l_translation = "FourierBesselM2LWithPreprocessedMultipoles"
    /\ src_expansion.order > 0
    /\ preprocessed_exprs # <<>>
    /\ derivatives = <<>>
    /\ returned = <<>>
\* ---------------------------------------------------------------- C25

\* The slot of a multi-index of the circulant space, counted from 0.
SlotOf(mi) == IndexOf(CircMis, mi) - 1

\* The upper-triangular Toeplitz product of the padded source vector and the
\* data vector of the state.
ToeplitzProduct ==
    matvec_toeplitz_upper_triangular(
        Modulus(tgt_expansion, src_expansion),
        VolumeTaylor_preprocess_multipole_exprs(
            tgt_expansion, src_expansion, src_coeff_exprs),
        VolumeTaylor_translation_classes_dependent_data(
            tgt_expansion, src_expansion, src_rscale, dvec, kernel))

\* What the FFT strategy has for the same rows: the inverse transform of its
\* pointwise product, reversed.
CircularProduct ==
    List(Reversed(ifft(Modulus(tgt_expansion, src_expansion), m2l_result)))

\* C25: in the circulant layout of n slots of a Cartesian pair, the slots of
\* a stored source identifier s and a stored target identifier t add up to
\* the slot of s + t, which is at most n - 1; so the cyclic product of the
\* FFT strategy and the Toeplitz product have the same entry in the slot of
\* every stored target identifier, and differ in dummy rows only.
C25_NoWrapAroundInTargetRows ==
    (pc = "done" /\ m2l_translation = "VolumeTaylorM2LWithFFT") =>
        /\ \A a \in DOMAIN SrcIds, b \in DOMAIN TgtIds :
                /\ SlotOf(SrcIds[a]) + SlotOf(TgtIds[b])
                        = SlotOf(add_mi(SrcIds[a], TgtIds[b]))
                /\ SlotOf(add_mi(SrcIds[a], TgtIds[b])) <= Len(CircMis) - 1
        /\ Len(CircularProduct) = Len(CircMis)
        /\ \A r \in DOMAIN CircMis :
                CircularProduct[r] # ToeplitzProduct[r] =>
                    CircMis[r] \notin Range(TgtIds)

\* The FFT strategy has finished on a two-dimensional pair and its cyclic
\* product differs from the Toeplitz product in a dummy row.
C25_Witness ==
    /\ pc = "done"
    /\ m2l_translation = "VolumeTaylorM2LWithFFT"
    /\ tgt_expansion.dim = 2
    /\ \E r \in DOMAIN CircMis : CircularProduct[r] # ToeplitzProduct[r]
    /\ \E b \in DOMAIN TgtIds : local_exprs[b] # 0
\* ---------------------------------------------------------------- C26

\* C26: the data vector of a Cartesian pair is the vector that
\* translation_classes_dependent_data builds for every order in which the
\* set of needed multi-indices is enumerated.
C26_DataIndependentOfEnumeration ==
    (pc = "data" /\ m2l_translation \in
            {"VolumeTaylorM2LTranslation",
             "VolumeTaylorM2LWithPreprocessedMultipoles"}) =>
        \A needed \in needed_vector_terms_orders(tgt_expansion, src_expansion) :
            derivatives_full(tgt_expansion, src_expansion, src_rscale, dvec,
                             kernel, needed) = derivatives

\* The data of a two-dimensional pair of orders 2 and 1 has been built; its
\* set of needed multi-indices has more than two enumeration orders and
\* the circulant space has dummy slots.
C26_Witness ==
    /\ pc = "data"
    /\ m2l_translation = "VolumeTaylorM2LTranslation"
    /\ tgt_expansion.dim = 2
    /\ src_expansion.order = 2
    /\ tgt_expansion.order = 1
    /\ Cardinality(needed_vector_terms_orders(tgt_expansion, src_expansion)) > 2
    /\ Len(CircMis) > Cardinality(NeededMis)
    /\ \E p \in DOMAIN derivatives : derivatives[p] # 0
\* ---------------------------------------------------------------- C27

\* An axis pass that adds to result.
AxisPassAdds ==
    /\ pc = "axis"
    /\ pc' = "axis"
    /\ axis' = axis + 1
    /\ result' # result

SweptInAnyOrder ==
    AxisPassAdds =>
        LET srs == m2m_rscale(tgt_expansion, src_rscale)
            trs == m2m_rscale(tgt_expansion, tgt_rscale)
            input == cur_dim_input_coeffs(tgt_expansion, src_expansion,
                        src_coeff_exprs, srs, trs, axis)
        IN  \A dims \in dims_orders(tgt_expansion.dim) :
                result' = RAddVec(result,
                    sweep_all(tgt_expansion, input, dims, dvec, trs))

\* C27: what an axis pass of translate_from adds to result is the sweep of
\* its input over the dimensions in any order, not only in the order the
\* code uses (the hyperplane axis last).
C27_SweepOrderIsImmaterial == [][SweptInAnyOrder]_vars

\* A two-dimensional axis pass has added to result with a displacement
\* that is nonzero along both axes, so both sweeps changed the
\* coefficients and there are two orders to compare.
C27_Witness ==
    /\ pc = "axis"
    /\ axis > 0
    /\ tgt_expansion.dim = 2
    /\ tgt_expansion.order = MaxOrder
    /\ \A j \in 1..2 : dvec[j] # 0
    /\ Cardinality(dims_orders(tgt_expansion.dim)) = 2
    /\ \E i \in DOMAIN result : result[i] # RZero
====
